---- MODULE Spec2Model ----
(***************************************************************************)
(* Pump energy-optimisation engine of rotalysis.                           *)
(*                                                                         *)
(* Two state machines share this module:                                   *)
(*   Spec       one equipment tag taken through PumpDataCleaner and        *)
(*              PumpOptimizer (clean -> compute -> aggregate -> energy ->  *)
(*              economics -> report);                                      *)
(*   SpecBatch  Core.process_task looping over the task list.              *)
(*                                                                         *)
(* Numbers.  pandas works on floats; the model works on exact rationals.   *)
(* A cell is a record [k, n, d, fe, pe]:                                   *)
(*   k  = "num" a number, "nan" pandas NaN, "inf" +/- infinity (sign in    *)
(*        n), "txt" a non-numeric raw cell;                                *)
(*   n/d  a rational in lowest terms, d > 0;                               *)
(*   fe, pe  how many times the value carries the flow-unit factor and the *)
(*        pressure-unit factor of the run: the number denoted is           *)
(*        (n/d) * F^fe * P^pe.  F and P are the positive conversion        *)
(*        factors selected by the unit map, so values of equal (fe, pe)    *)
(*        compare and add through n/d alone, and values of different       *)
(*        (fe, pe) are first evaluated with the factors (Eval).            *)
(* Speed variations are cube roots; a speed-variation cell holds the       *)
(* exact root when the radicand is the cube of a rational and otherwise    *)
(* is the kind "cbrt" holding the radicand.                                *)
(***************************************************************************)
EXTENDS Integers, Sequences, FiniteSets, TLC

VARIABLES
    \* ---- one tag (PumpDataCleaner / PumpOptimizer attributes) ----
    unit,                 \* self.unit: flowrate / pressure unit strings
    process_data,         \* self.process_data: design data of the tag
    config,               \* self.config
    env,                  \* collaborators: emission table, output file system
    columns,              \* self.operation_data.columns
    operation_data,       \* self.operation_data rows
    dfcalculation,        \* self.dfcalculation (flow-bin table)
    vsd_calculation,      \* self.vsd_calculation
    impeller_calculation, \* self.impeller_calculation
    df_summary,           \* self.df_summary
    df_economics,         \* self.df_economics
    report,               \* the workbook written by write_to_excel
    log,                  \* error / warning messages sent to the logger
    pc,                   \* position of the tag's pipeline
    error,                \* exception that ended the pipeline, if any
    \* ---- batch (Core attributes and process_task locals) ----
    dftask_list,          \* self.dftask_list rows
    outcome,              \* per task: how its pipeline will end (input)
    window,               \* self.window (progress window attached or not)
    loop_i,               \* position of the for loop over task_list
    success,              \* self.success
    success_count,        \* self.success_count
    pump_bound,           \* the task whose Pump the local name `pump` is bound
                          \* to; 0 while the name is unbound
    attempts,             \* task_list snapshot (todo), tasks tried so far
    bpc,                  \* position inside process_task
    \* ---- EnergySavingsCalculator attributes, energy_savings locals ----
    strategy,             \* self.strategy
    working_percent,      \* self.working_percent (None: unset)
    calc_df,              \* self.dfcalculation, the df of energy_savings
    energy_savings,       \* the table the energy_savings property returns
    cpc,                  \* position inside energy_savings
    \* ---- one call of PumpOptimizer.get_economic_calculation ----
    economics_args,       \* capex, opex, savings, reduction and self.config
    dfcashflow,           \* the cash-flow column of dfcashflow, by year
    economics_locals,     \* npv, annualized_spending, pay_back, ghg_reduction_cost
    economic_calculation, \* the dictionary the call returns
    qpc,                  \* position inside get_economic_calculation
    \* ---- PumpFunction class attributes and two tasks of src/core.py ----
    PF_process_data,      \* PumpFunction.process_data (class attribute)
    PF_unit,              \* PumpFunction.unit (class attribute)
    equipment,            \* per task: dfprocess, dfunit loaded from its file
    dfoperation,          \* per task: the local dfoperation
    task_pc,              \* per task: position inside the loop body
    \* ---- the two orchestrators of rotalysis.pump.Pump on one sheet ----
    core_table,           \* dfoperation of the Pump of Core.process_task
    pump_table,           \* dfoperation of the Pump of Pump.process_pump
    order_pc              \* position of each orchestrator

tagvars == <<unit, process_data, config, env, columns, operation_data,
             dfcalculation, vsd_calculation, impeller_calculation,
             df_summary, df_economics, report, log, pc, error>>
batchvars == <<dftask_list, outcome, window, loop_i, success, success_count,
               pump_bound, attempts, bpc>>
calcvars == <<strategy, working_percent, calc_df, energy_savings, cpc>>
econvars == <<economics_args, dfcashflow, economics_locals,
              economic_calculation, qpc>>
classvars == <<PF_process_data, PF_unit, equipment, dfoperation, task_pc>>
ordervars == <<core_table, pump_table, order_pc>>
not_tagvars == <<batchvars, calcvars, econvars, classvars, ordervars>>
not_batchvars == <<tagvars, calcvars, econvars, classvars, ordervars>>
not_calcvars == <<tagvars, batchvars, econvars, classvars, ordervars>>
not_econvars == <<tagvars, batchvars, calcvars, classvars, ordervars>>
not_classvars == <<tagvars, batchvars, calcvars, econvars, ordervars>>
not_ordervars == <<tagvars, batchvars, calcvars, econvars, classvars>>
vars == <<tagvars, batchvars, calcvars, econvars, classvars, ordervars>>

(***************************************************************************)
(* Bounds of the model                                                     *)
(***************************************************************************)
MaxRows == 3
MaxFilterRows == 2
MaxTasks == 2

\* F(v) with v evaluated once, however often F uses it
Bind(v, F(_)) == CHOOSE y \in {F(x) : x \in {v}} : TRUE

(***************************************************************************)
(* Exact rational arithmetic                                               *)
(***************************************************************************)
Abs(x) == IF x < 0 THEN -x ELSE x

RECURSIVE GCD(_, _)
GCD(a, b) == IF b = 0 THEN a ELSE GCD(b, a % b)

Rat(n, d) ==
    LET g == GCD(Abs(n), Abs(d))
        s == IF d < 0 THEN -1 ELSE 1
    IN  [n |-> s * (n \div g), d |-> s * (d \div g)]

RatMul(a, b) ==
    LET g1 == GCD(Abs(a.n), b.d)
        g2 == GCD(Abs(b.n), a.d)
    IN  IF a.n = 0 \/ b.n = 0 THEN [n |-> 0, d |-> 1]
        ELSE [n |-> (a.n \div g1) * (b.n \div g2),
              d |-> (a.d \div g2) * (b.d \div g1)]

RatInv(a) == IF a.n < 0 THEN [n |-> -a.d, d |-> -a.n] ELSE [n |-> a.d, d |-> a.n]

RatDiv(a, b) == RatMul(a, RatInv(b))

RatAdd(a, b) ==
    LET g == GCD(a.d, b.d)
    IN  Rat(a.n * (b.d \div g) + b.n * (a.d \div g), (a.d \div g) * b.d)

RatNeg(a) == [n |-> -a.n, d |-> a.d]

RatSub(a, b) == RatAdd(a, RatNeg(b))

RatLess(a, b) ==
    LET g == GCD(a.d, b.d)
    IN  a.n * (b.d \div g) < b.n * (a.d \div g)

RatLeq(a, b) == a = b \/ RatLess(a, b)

RECURSIVE RatPow(_, _)
RatPow(a, e) == IF e = 0 THEN [n |-> 1, d |-> 1] ELSE RatMul(a, RatPow(a, e - 1))

\* ceil(a) for a rational a
RatCeil(a) == -((-a.n) \div a.d)

(***************************************************************************)
(* Unit tables of convert_default_unit                                     *)
(***************************************************************************)
FlowUnits == {"m3/hr", "default", "bpd", "gpm", "bph", "mbph"}
PressureUnits == {"bar", "psi"}

\* str.lower() on the unit strings the model draws
Lower(s) == CASE s = "GPM" -> "gpm" [] s = "M3/HR" -> "m3/hr" [] OTHER -> s

\* flowrate_conversion[u]; 0.0066245 = 13249/2000000, 0.22712 = 2839/12500,
\* 0.15899 = 15899/100000, 158.99 = 15899/100
flowrate_conversion(u) ==
    CASE u = "m3/hr"   -> Rat(1, 1)
      [] u = "default" -> Rat(1, 1)
      [] u = "bpd"     -> Rat(66245, 10000000)
      [] u = "gpm"     -> Rat(22712, 100000)
      [] u = "bph"     -> Rat(15899, 100000)
      [] u = "mbph"    -> Rat(15899, 100)

\* pressure_conversion.get(u, 1); 0.0689476 = 172369/2500000
pressure_conversion_get(u) ==
    CASE u = "bar" -> Rat(1, 1)
      [] u = "psi" -> Rat(689476, 10000000)
      [] OTHER     -> Rat(1, 1)

\* flowrate_conversion.get(u, 1)
flowrate_conversion_get(u) ==
    IF u \in FlowUnits THEN flowrate_conversion(u) ELSE Rat(1, 1)

\* the two factors of the current run
FlowFactor == flowrate_conversion_get(Lower(unit.flowrate))
PressureFactor == pressure_conversion_get(unit.pressure)

(***************************************************************************)
(* Cells                                                                   *)
(***************************************************************************)
One == [n |-> 1, d |-> 1]
Num(n, d) == [k |-> "num", n |-> Rat(n, d).n, d |-> Rat(n, d).d, fe |-> 0, pe |-> 0]
OfRat(r, fe, pe) == [k |-> "num", n |-> r.n, d |-> r.d,
                     fe |-> IF r.n = 0 THEN 0 ELSE fe,
                     pe |-> IF r.n = 0 THEN 0 ELSE pe]
NaN == [k |-> "nan", n |-> 0, d |-> 1, fe |-> 0, pe |-> 0]
Txt == [k |-> "txt", n |-> 0, d |-> 1, fe |-> 0, pe |-> 0]
Inf(sign) == [k |-> "inf", n |-> sign, d |-> 1, fe |-> 0, pe |-> 0]
Zero == Num(0, 1)

Irr == [k |-> "irr", n |-> 0, d |-> 1, fe |-> 0, pe |-> 0]
Empty == [k |-> "empty", n |-> 0, d |-> 1, fe |-> 0, pe |-> 0]
\* a text cell holding s
Str(s) == [k |-> s, n |-> 0, d |-> 1, fe |-> 0, pe |-> 0]

RatOf(c) == [n |-> c.n, d |-> c.d]
\* kinds that are numbers the model cannot write as a rational
Symbolic(c) == c.k \in {"cbrt", "sqrt", "irr"}
\* kinds that are not a float value in arithmetic
NotValue(c) == c.k \notin {"num", "inf", "cbrt", "sqrt", "irr"}
IsNum(c) == c.k = "num"
IsNaN(c) == c.k = "nan"
IsZero(c) == c.k = "num" /\ c.n = 0
Sign(c) == IF c.n < 0 THEN -1 ELSE IF c.n > 0 THEN 1 ELSE 0

RatIPow(a, e) == IF e >= 0 THEN RatPow(a, e) ELSE RatPow(RatInv(a), -e)

\* the rational a "num" cell denotes, with the unit factors multiplied out
Eval(c) ==
    RatMul(RatOf(c), RatMul(RatIPow(FlowFactor, c.fe), RatIPow(PressureFactor, c.pe)))

\* a factor of exactly 1 is not carried
Canon(c) ==
    [c EXCEPT !.fe = IF FlowFactor = One \/ c.k # "num" \/ c.n = 0 THEN 0 ELSE @,
              !.pe = IF PressureFactor = One \/ c.k # "num" \/ c.n = 0 THEN 0 ELSE @]

SameDim(a, b) == a.fe = b.fe /\ a.pe = b.pe

\* a < b on floats: False whenever a NaN is involved
CLess(a, b) ==
    CASE NotValue(a) \/ NotValue(b) \/ Symbolic(a) \/ Symbolic(b) -> FALSE
      [] a.k = "inf" /\ b.k = "inf" -> a.n < b.n
      [] a.k = "inf" -> a.n < 0
      [] b.k = "inf" -> b.n > 0
      [] a.n = 0 \/ b.n = 0 -> Sign(a) < Sign(b)     \* the factors are positive
      [] OTHER -> IF SameDim(a, b) THEN RatLess(RatOf(a), RatOf(b))
                  ELSE RatLess(Eval(a), Eval(b))

\* a == b on floats
CEq(a, b) ==
    CASE NotValue(a) \/ NotValue(b) \/ Symbolic(a) \/ Symbolic(b) -> FALSE
      [] a.k = "inf" \/ b.k = "inf" -> a.k = b.k /\ a.n = b.n
      [] a.n = 0 \/ b.n = 0 -> a.n = b.n
      [] OTHER -> IF SameDim(a, b) THEN RatOf(a) = RatOf(b) ELSE Eval(a) = Eval(b)

CLeq(a, b) == CLess(a, b) \/ CEq(a, b)
CGreater(a, b) == CLess(b, a)

CNeg(a) ==
    IF a.k \in {"num", "inf"} THEN [a EXCEPT !.n = -a.n]
    ELSE IF Symbolic(a) THEN Irr ELSE NaN

CAdd(a, b) ==
    CASE NotValue(a) \/ NotValue(b) -> NaN
      [] Symbolic(a) \/ Symbolic(b) -> Irr
      [] a.k = "inf" /\ b.k = "inf" -> IF a.n = b.n THEN a ELSE NaN
      [] a.k = "inf" -> a
      [] b.k = "inf" -> b
      [] a.n = 0 -> b
      [] b.n = 0 -> a
      [] OTHER -> IF SameDim(a, b)
                  THEN OfRat(RatAdd(RatOf(a), RatOf(b)), a.fe, a.pe)
                  ELSE OfRat(RatAdd(Eval(a), Eval(b)), 0, 0)

CSub(a, b) == CAdd(a, CNeg(b))

CMul(a, b) ==
    CASE NotValue(a) \/ NotValue(b) -> NaN
      [] Symbolic(a) \/ Symbolic(b) -> Irr
      [] a.k = "inf" \/ b.k = "inf" ->
            IF Sign(a) * Sign(b) = 0 THEN NaN ELSE Inf(Sign(a) * Sign(b))
      [] OTHER -> Canon(OfRat(RatMul(RatOf(a), RatOf(b)), a.fe + b.fe, a.pe + b.pe))

\* float division: x/0 is +/-inf, 0/0 is NaN
CDiv(a, b) ==
    CASE NotValue(a) \/ NotValue(b) -> NaN
      [] Symbolic(a) \/ Symbolic(b) -> Irr
      [] a.k = "inf" /\ b.k = "inf" -> NaN
      [] a.k = "inf" -> Inf(IF b.n < 0 THEN -a.n ELSE a.n)
      [] b.k = "inf" -> Zero
      [] b.n = 0 -> IF a.n = 0 THEN NaN ELSE Inf(Sign(a))
      [] OTHER -> Canon(OfRat(RatDiv(RatOf(a), RatOf(b)), a.fe - b.fe, a.pe - b.pe))

\* number * cell, for the literal factors of the code
CScale(r, a) == CMul(OfRat(r, 0, 0), a)

(***************************************************************************)
(* Cube roots                                                              *)
(***************************************************************************)
CubeSearch == 12

IsCube(x) == \E r \in 0..CubeSearch : r * r * r = x
ICbrt(x) == CHOOSE r \in 0..CubeSearch : r * r * r = x

\* x ** (1/3) on floats: NaN for a negative base
CubeRoot(c) ==
    CASE NotValue(c) -> NaN
      [] Symbolic(c) -> Irr
      [] c.k = "inf" -> IF c.n > 0 THEN Inf(1) ELSE NaN
      [] c.n < 0 -> NaN
      [] OTHER ->
            LET r == Eval(c)
            IN  IF IsCube(r.n) /\ IsCube(r.d) THEN Num(ICbrt(r.n), ICbrt(r.d))
                ELSE [k |-> "cbrt", n |-> r.n, d |-> r.d, fe |-> 0, pe |-> 0]

\* x ** 3 of a (possibly symbolic) speed variation
Cube(c) ==
    CASE c.k = "cbrt" -> Num(c.n, c.d)
      [] c.k = "num"  -> OfRat(RatPow(RatOf(c), 3), 3 * c.fe, 3 * c.pe)
      [] c.k = "inf"  -> c
      [] Symbolic(c)  -> Irr
      [] OTHER        -> NaN

\* order on speed variations: through the cubes, the cube being increasing
SLess(a, b) == CLess(Cube(a), Cube(b))

(***************************************************************************)
(* pandas reductions over a sequence of cells: NaN is skipped              *)
(***************************************************************************)
RECURSIVE SumSeq(_)
SumSeq(s) ==
    IF s = <<>> THEN Zero
    ELSE IF IsNaN(Head(s)) THEN SumSeq(Tail(s))
    ELSE CAdd(Head(s), SumSeq(Tail(s)))

RECURSIVE CountSeq(_)
CountSeq(s) ==
    IF s = <<>> THEN 0
    ELSE (IF IsNaN(Head(s)) THEN 0 ELSE 1) + CountSeq(Tail(s))

RECURSIVE MaxSeq(_)
MaxSeq(s) ==
    IF s = <<>> THEN NaN
    ELSE LET m == MaxSeq(Tail(s))
         IN  IF IsNaN(Head(s)) THEN m
             ELSE IF IsNaN(m) THEN Head(s)
             ELSE IF CLess(m, Head(s)) THEN Head(s) ELSE m

\* Series.mean(): NaN for no value; a constant series has its own value
MeanSeq(s) ==
    LET vals == SelectSeq(s, LAMBDA c : ~IsNaN(c))
    IN  IF vals = <<>> THEN NaN
        ELSE IF \A i \in 1..Len(vals) : vals[i] = vals[1] THEN vals[1]
        ELSE IF \E i \in 1..Len(vals) : vals[i].k = "cbrt"
             THEN Irr
        ELSE CDiv(SumSeq(vals), Num(Len(vals), 1))

(***************************************************************************)
(* Column names (rotalysis.definitions)                                    *)
(***************************************************************************)
SUCTION_PRESSURE == "Suction Pressure"
DISCHARGE_PRESSURE == "Discharge Pressure"
DISCHARGE_FLOWRATE == "Discharge Flowrate"
CV_OPENING == "CV Opening"
DOWNSTREAM_PRESSURE == "Downstream Pressure"
RECIRCULATION_FLOW == "Recirculation Flow"
SPEED == "Speed"

FLOWRATE_PERCENT == "Flowrate Percent"
DIFFERENTIAL_PRESSURE == "Differential Pressure"
ACTUAL_CV == "Actual CV"
CALCULATED_CV_DROP == "Calculated CV Drop"
MEASURED_CV_DROP == "Measured CV Drop"
CV_PRESSURE_DROP == "CV Pressure Drop"
INHERENT_PIPING_LOSS == "Inherent Piping Loss"
REQUIRED_DIFFERENTIAL_PRESSURE == "Required Differential Pressure"
REQUIRED_SPEED_VARIATION == "Required Speed Variation"
BASE_HYDRAULIC_POWER == "Base Hydraulic Power"
OLD_PUMP_EFFICIENCY == "Old Pump Efficiency"
OLD_MOTOR_EFFICIENCY == "Old Motor Efficiency"
BASE_MOTOR_POWER == "Base Motor Power"
WORKING_HOURS == "Working Hours"
WORKING_PERCENT == "Working Percent"

\* PumpDataCleaner.mandatory_columns, in dictionary order
mandatory_columns == <<SUCTION_PRESSURE, DISCHARGE_PRESSURE, DISCHARGE_FLOWRATE>>
\* PumpDataCleaner.optional_columns
optional_columns == <<CV_OPENING, DOWNSTREAM_PRESSURE, RECIRCULATION_FLOW>>
\* PumpDataCleaner.relevant_columns
relevant_columns == mandatory_columns \o optional_columns
\* PumpDataCleaner.computed_columns
computed_columns ==
    <<FLOWRATE_PERCENT, DIFFERENTIAL_PRESSURE, ACTUAL_CV, CALCULATED_CV_DROP,
      MEASURED_CV_DROP, CV_PRESSURE_DROP, INHERENT_PIPING_LOSS,
      REQUIRED_DIFFERENTIAL_PRESSURE, REQUIRED_SPEED_VARIATION,
      BASE_HYDRAULIC_POWER, OLD_PUMP_EFFICIENCY, OLD_MOTOR_EFFICIENCY,
      BASE_MOTOR_POWER, WORKING_HOURS, WORKING_PERCENT>>

Range(s) == {s[i] : i \in 1..Len(s)}

\* the columns an operation sheet of the model may carry
RawColumns == {SUCTION_PRESSURE, DISCHARGE_PRESSURE, DISCHARGE_FLOWRATE,
               CV_OPENING, DOWNSTREAM_PRESSURE, SPEED}
AllColumns == RawColumns \cup Range(computed_columns)

\* calculation methods are named after the column they read
METHOD_DOWNSTREAM == DOWNSTREAM_PRESSURE
METHOD_CV == CV_OPENING

(***************************************************************************)
(* Exceptions                                                              *)
(***************************************************************************)
NoError == [type |-> "none", stage |-> "none", names |-> <<>>]
Raise(type, stage) == [type |-> type, stage |-> stage, names |-> <<>>]

(***************************************************************************)
(* PumpDataCleaner: the cleaning steps as functions of the table           *)
(***************************************************************************)
\* cells of columns not in cols are blanked (the column does not exist)
Project(rows, cols) ==
    [i \in 1..Len(rows) |->
        [c \in AllColumns |-> IF c \in cols THEN rows[i][c] ELSE NaN]]

\* a text cell that reads as the number n
NumTxt(n) == [k |-> "numtxt", n |-> n, d |-> 1, fe |-> 0, pe |-> 0]

\* pd.to_numeric(errors="coerce") on one cell: text that reads as a number is
\* parsed, any other text becomes NaN
to_numeric(c) ==
    IF c.k = "txt" THEN NaN
    ELSE IF c.k = "numtxt" THEN [c EXCEPT !.k = "num"] ELSE c

\* variant: the rows without a number are not dropped
Clean_dataframe_keeping_rows(rows, cols) ==
    LET coerced == [i \in 1..Len(rows) |->
                       [c \in AllColumns |-> to_numeric(rows[i][c])]]
        keptcols == {c \in cols : \E i \in 1..Len(coerced) : ~IsNaN(coerced[i][c])}
    IN  [rows |-> Project(coerced, keptcols), cols |-> keptcols]

\* UtilityFunction.Clean_dataframe: coerce, drop all-empty rows, drop
\* all-empty columns, reset the index
Clean_dataframe(rows, cols) ==
    LET coerced == [i \in 1..Len(rows) |->
                       [c \in AllColumns |-> to_numeric(rows[i][c])]]
        kept == SelectSeq(coerced, LAMBDA r : \E c \in cols : ~IsNaN(r[c]))
        keptcols == {c \in cols : \E i \in 1..Len(kept) : ~IsNaN(kept[i][c])}
    IN  [rows |-> Project(kept, keptcols), cols |-> keptcols]

\* a check that reports the first missing name only
missing_columns_first(cols) ==
    \* the guard keeps the empty list empty
    IF Range(mandatory_columns) \subseteq cols THEN <<>>
    ELSE <<Head(SelectSeq(mandatory_columns, LAMBDA c : c \notin cols))>>

\* PumpDataCleaner.__check_mandatory_columns: the missing names, in order
missing_columns(cols) == SelectSeq(mandatory_columns, LAMBDA c : c \notin cols)

\* PumpDataCleaner.remove_irrelevant_columns
remove_irrelevant_columns(rows, cols) ==
    LET keptcols == cols \cap Range(relevant_columns)
    IN  [rows |-> Project(rows, keptcols), cols |-> keptcols]

\* UtilityFunction.is_empty_value on a string
is_empty_value(v) == v = ""
\* UtilityFunction.is_empty_value on a numeric design-data cell
is_empty_cell(c) == c.k \in {"empty", "nan"}

\* value * factor for a flow / pressure cell of the table
ConvertFlow(c) == IF c.k = "num" THEN Canon([c EXCEPT !.fe = @ + 1]) ELSE c
ConvertPressure(c) == IF c.k = "num" THEN Canon([c EXCEPT !.pe = @ + 1]) ELSE c

\* variant: the downstream pressure is left in the unit of the sheet
convert_default_unit_mandatory_only(rows, cols, rated) ==
    IF Lower(unit.flowrate) \notin FlowUnits
    THEN [err |-> Raise("CustomException", "convert_default_unit"),
          rows |-> rows, rated |-> rated]
    ELSE IF ~({DISCHARGE_FLOWRATE, SUCTION_PRESSURE, DISCHARGE_PRESSURE}
                  \subseteq cols)
    THEN [err |-> Raise("KeyError", "convert_default_unit"),
          rows |-> rows, rated |-> rated]
    ELSE [err |-> NoError,
          rows |-> [i \in 1..Len(rows) |->
                      [rows[i] EXCEPT
                          ![DISCHARGE_FLOWRATE] = ConvertFlow(@),
                          ![SUCTION_PRESSURE] = ConvertPressure(@),
                          ![DISCHARGE_PRESSURE] = ConvertPressure(@)]],
          rated |-> ConvertFlow(rated)]

\* PumpDataCleaner.convert_default_unit.  Result: err, rows, rated
convert_default_unit(rows, cols, rated) ==
    LET flowrate_unit == Lower(unit.flowrate)
        conv == [i \in 1..Len(rows) |->
                   [c \in AllColumns |->
                      CASE c = DISCHARGE_FLOWRATE -> ConvertFlow(rows[i][c])
                        [] c \in {SUCTION_PRESSURE, DISCHARGE_PRESSURE} ->
                                ConvertPressure(rows[i][c])
                        [] c = DOWNSTREAM_PRESSURE /\ c \in cols ->
                                ConvertPressure(rows[i][c])
                        [] OTHER -> rows[i][c]]]
    IN  IF flowrate_unit \notin FlowUnits
        THEN [err |-> Raise("CustomException", "convert_default_unit"),
              rows |-> rows, rated |-> rated]
        ELSE IF DISCHARGE_FLOWRATE \notin cols
        THEN [err |-> Raise("KeyError", "convert_default_unit"),
              rows |-> rows, rated |-> rated]
        ELSE IF ~({SUCTION_PRESSURE, DISCHARGE_PRESSURE} \subseteq cols)
        THEN [err |-> Raise("KeyError", "convert_default_unit"),
              rows |-> [i \in 1..Len(rows) |->
                          [rows[i] EXCEPT ![DISCHARGE_FLOWRATE] = ConvertFlow(@)]],
              rated |-> ConvertFlow(rated)]
        ELSE [err |-> NoError, rows |-> conv, rated |-> ConvertFlow(rated)]

\* the row mask of remove_non_operating_rows
OperatingMask(r) ==
    /\ CGreater(r[DISCHARGE_FLOWRATE], Zero)
    /\ CLess(r[SUCTION_PRESSURE], r[DISCHARGE_PRESSURE])
DownstreamMask(r) ==
    /\ CLess(r[DOWNSTREAM_PRESSURE], r[DISCHARGE_PRESSURE])
    /\ ~IsNaN(to_numeric(r[DOWNSTREAM_PRESSURE]))
\* a mask that keeps an opening equal to the minimum
CvMask_inclusive(r, min_cv_opening) ==
    /\ ~IsNaN(to_numeric(r[CV_OPENING]))
    /\ CLeq(min_cv_opening, to_numeric(r[CV_OPENING]))
CvMask(r, min_cv_opening) ==
    /\ ~IsNaN(to_numeric(r[CV_OPENING]))
    /\ CGreater(to_numeric(r[CV_OPENING]), min_cv_opening)

\* a test that looks for each of the two optional columns
method_column_absent_each(cols) ==
    DOWNSTREAM_PRESSURE \notin cols /\ CV_OPENING \notin cols

\* the last elif of remove_non_operating_rows: the f-string
\* "Downstream Pressure|CV Opening" is looked up as one column name
method_column_absent(cols) ==
    (DOWNSTREAM_PRESSURE \o "|" \o CV_OPENING) \notin cols

\* PumpDataCleaner.remove_non_operating_rows.  Result: err, rows
remove_non_operating_rows(rows, cols, calculation_method, min_cv_opening) ==
    LET present == SelectSeq(rows, LAMBDA r :
                       \A c \in Range(mandatory_columns) : ~IsNaN(r[c]))
        fail(t) == [err |-> Raise(t, "remove_non_operating_rows"), rows |-> rows]
    IN  IF ~(Range(mandatory_columns) \subseteq cols)
        THEN fail("CustomException")      \* KeyError, re-raised as CustomException
        ELSE IF is_empty_value(calculation_method)
        THEN [err |-> Raise("CustomException", "remove_non_operating_rows"),
              rows |-> present]
        ELSE IF calculation_method = METHOD_DOWNSTREAM /\ DOWNSTREAM_PRESSURE \in cols
        THEN [err |-> NoError,
              rows |-> SelectSeq(present, LAMBDA r : OperatingMask(r) /\ DownstreamMask(r))]
        ELSE IF calculation_method = METHOD_CV /\ CV_OPENING \in cols
        THEN [err |-> NoError,
              rows |-> SelectSeq(present, LAMBDA r :
                           OperatingMask(r) /\ CvMask(r, min_cv_opening))]
        ELSE IF method_column_absent(cols)
        THEN [err |-> Raise("CustomException", "remove_non_operating_rows"),
              rows |-> present]
        ELSE [err |-> NoError, rows |-> SelectSeq(present, OperatingMask)]

(***************************************************************************)
(* PumpFunction / ValveFunction                                            *)
(***************************************************************************)
BAR_TO_PASCAL == 100000
HOUR_TO_SECOND == 3600
WATT_TO_MEGAWATT == 1000000

LINEAR == "Linear"
EQUAL_PERCENTAGE == "Equal Percentage"
QUICK_OPENING == "Quick Opening"

CSquare(a) == CMul(a, a)
COne == Num(1, 1)

\* PumpFunction.get_differential_pressure
get_differential_pressure(discharge_pressure, suction_pressure) ==
    CSub(discharge_pressure, suction_pressure)

\* PumpFunction.get_measured_cv_drop
get_measured_cv_drop(discharge_pressure, downstream_pressure) ==
    CSub(discharge_pressure, downstream_pressure)

\* PumpFunction.get_speed_variation: (new / old) ** (1/3)
get_speed_variation(old_pressure, new_pressure) ==
    CubeRoot(CDiv(new_pressure, old_pressure))

\* PumpFunction.get_base_hydraulic_power
get_base_hydraulic_power(discharge_flowrate, differential_pressure) ==
    CDiv(CMul(CDiv(discharge_flowrate, Num(HOUR_TO_SECOND, 1)),
              CMul(differential_pressure, Num(BAR_TO_PASCAL, 1))),
         Num(WATT_TO_MEGAWATT, 1))

\* PumpFunction.get_pump_efficiency
get_pump_efficiency(bep_flowrate, bep_efficiency, actual_flowrate) ==
    LET correction_factor ==
            CSub(COne, CSquare(CSub(COne, CDiv(actual_flowrate, bep_flowrate))))
    IN  CMul(correction_factor, bep_efficiency)

\* ValveFunction.df_rated_cv: the Valve sheet of the data book, one size
ValveSizes == {"4"}
df_rated_cv(valve_size, valve_character) ==
    IF valve_character = LINEAR THEN Num(578, 25) ELSE Num(4624, 25)

\* ValveFunction.get_rated_cv.  Result: err, cv
get_rated_cv(valve_size, valve_character) ==
    IF valve_character \in {LINEAR, EQUAL_PERCENTAGE}
    THEN IF valve_size \in ValveSizes
         THEN [err |-> NoError, cv |-> df_rated_cv(valve_size, valve_character)]
         ELSE [err |-> Raise("ValueError", "get_rated_cv"), cv |-> NaN]
    ELSE [err |-> Raise("ValueError", "get_rated_cv"), cv |-> NaN]

\* sqrt of a cell: exact for squares of rationals
SquareSearch == 12
IsSquare(x) == \E r \in 0..SquareSearch : r * r = x
ISqrt(x) == CHOOSE r \in 0..SquareSearch : r * r = x
CSqrt(c) ==
    IF c.k = "num" /\ c.n >= 0 /\ IsSquare(c.n) /\ IsSquare(c.d)
    THEN Num(ISqrt(c.n), ISqrt(c.d))
    ELSE IF c.k = "num" /\ c.n >= 0
    THEN [k |-> "sqrt", n |-> c.n, d |-> c.d, fe |-> 0, pe |-> 0]
    ELSE IF Symbolic(c) THEN Irr ELSE NaN

\* ValveFunction.get_actual_cv.  Result: err, cv
get_actual_cv(rated_cv, cv_opening, valve_character) ==
    LET x == CDiv(cv_opening, Num(100, 1))
    IN  CASE valve_character = LINEAR -> [err |-> NoError, cv |-> CMul(rated_cv, x)]
          [] valve_character = EQUAL_PERCENTAGE ->
                [err |-> NoError, cv |-> CMul(rated_cv, CMul(x, CMul(x, x)))]
          [] valve_character = QUICK_OPENING ->
                [err |-> NoError, cv |-> CMul(rated_cv, CSqrt(x))]
          [] OTHER -> [err |-> Raise("ValueError", "get_actual_cv"), cv |-> NaN]

\* ValveFunction.get_pressure_drop; 1.156 = 289/250
get_pressure_drop(discharge_flowrate, cv, density) ==
    LET metric_cv == CDiv(cv, Num(289, 250))
    IN  CMul(CSquare(CDiv(discharge_flowrate, metric_cv)),
             CDiv(density, Num(1000, 1)))

(***************************************************************************)
(* PumpOptimizer.get_computed_columns, column by column                    *)
(***************************************************************************)
SetCol(rows, c, f(_)) ==
    Bind(rows, LAMBDA t : [i \in 1..Len(t) |-> Bind(t[i], LAMBDA r : [r EXCEPT ![c] = f(r)])])

\* __add_computed_columns
add_computed_columns(rows) ==
    SetCol(rows, DIFFERENTIAL_PRESSURE,
           LAMBDA r : get_differential_pressure(r[DISCHARGE_PRESSURE],
                                                r[SUCTION_PRESSURE]))

\* __get_cv_drop.  Result: err, rows
get_cv_drop(rows, pdata, cfg) ==
    LET rated == get_rated_cv(pdata.valve_size, pdata.valve_character)
        acv(r) == get_actual_cv(rated.cv, r[CV_OPENING], pdata.valve_character).cv
        r1 == SetCol(rows, ACTUAL_CV, acv)
        r2 == SetCol(r1, CALCULATED_CV_DROP,
                     LAMBDA r : get_pressure_drop(r[DISCHARGE_FLOWRATE],
                                                  r[ACTUAL_CV], pdata.density))
        r3 == SetCol(r2, CV_PRESSURE_DROP, LAMBDA r : r[CALCULATED_CV_DROP])
        r4 == SetCol(r3, INHERENT_PIPING_LOSS, LAMBDA r : Zero)
        m1 == SetCol(rows, MEASURED_CV_DROP,
                     LAMBDA r : get_measured_cv_drop(r[DISCHARGE_PRESSURE],
                                                     r[DOWNSTREAM_PRESSURE]))
        m2 == SetCol(m1, CV_PRESSURE_DROP, LAMBDA r : r[MEASURED_CV_DROP])
        m3 == SetCol(m2, INHERENT_PIPING_LOSS,
                     LAMBDA r : CMul(r[CV_PRESSURE_DROP], cfg.piping_loss))
    IN  IF pdata.calculation_method = METHOD_CV
        THEN IF ~is_empty_value(pdata.valve_size)
             THEN IF rated.err # NoError
                  THEN [err |-> rated.err, rows |-> rows]
                  ELSE [err |-> NoError, rows |-> r4]
             ELSE [err |-> Raise("CustomException", "get_cv_drop"), rows |-> rows]
        ELSE IF pdata.calculation_method = METHOD_DOWNSTREAM
        THEN [err |-> NoError, rows |-> m3]
        ELSE [err |-> NoError, rows |-> rows]

\* __get_required_differential_pressure
get_required_differential_pressure(rows) ==
    SetCol(rows, REQUIRED_DIFFERENTIAL_PRESSURE,
           LAMBDA r : CSub(CAdd(r[DIFFERENTIAL_PRESSURE], r[INHERENT_PIPING_LOSS]),
                           r[CV_PRESSURE_DROP]))

\* __get_required_speed_varation
get_required_speed_varation(rows) ==
    SetCol(rows, REQUIRED_SPEED_VARIATION,
           LAMBDA r : get_speed_variation(r[DIFFERENTIAL_PRESSURE],
                                          r[REQUIRED_DIFFERENTIAL_PRESSURE]))

\* __get_base_hydraulic_power
get_base_hydraulic_power_column(rows) ==
    SetCol(rows, BASE_HYDRAULIC_POWER,
           LAMBDA r : get_base_hydraulic_power(r[DISCHARGE_FLOWRATE],
                                               r[DIFFERENTIAL_PRESSURE]))

\* __get_bep_flowrate: empty or a string falls back to the rated flowrate
get_bep_flowrate(pdata) ==
    IF is_empty_cell(pdata.bep_flowrate) \/ pdata.bep_flowrate.k = "txt"
    THEN pdata.rated_flowrate ELSE pdata.bep_flowrate

\* __get_bep_efficiency: empty or a string falls back to the configured default
get_bep_efficiency(pdata, cfg) ==
    IF is_empty_cell(pdata.bep_efficiency) \/ pdata.bep_efficiency.k = "txt"
    THEN cfg.pump_efficiency ELSE pdata.bep_efficiency

\* the motor efficiency __get_efficiency leaves in process_data; 0.9 if empty
DefaultMotorEfficiency == Num(9, 10)
\* variant: an empty motor efficiency is taken as 100%
motor_efficiency_ideal(pdata) ==
    IF is_empty_cell(pdata.motor_efficiency)
    THEN Num(1, 1) ELSE pdata.motor_efficiency

motor_efficiency_after(pdata) ==
    IF is_empty_cell(pdata.motor_efficiency)
    THEN DefaultMotorEfficiency ELSE pdata.motor_efficiency

\* __get_efficiency (the table part)
get_efficiency(rows, pdata, cfg) ==
    LET r1 == SetCol(rows, OLD_PUMP_EFFICIENCY,
                     LAMBDA r : get_pump_efficiency(get_bep_flowrate(pdata),
                                                    get_bep_efficiency(pdata, cfg),
                                                    r[DISCHARGE_FLOWRATE]))
    IN  SetCol(r1, OLD_MOTOR_EFFICIENCY, LAMBDA r : motor_efficiency_after(pdata))

\* the warnings __get_efficiency logs
efficiency_warnings(pdata) ==
    (IF pdata.bep_flowrate.k = "txt" THEN {"BEP_flowrate should be empty or numeric"} ELSE {})
    \cup (IF pdata.bep_efficiency.k = "txt"
          THEN {"BEP_efficiency should be empty or numeric"} ELSE {})
    \cup (IF is_empty_cell(pdata.motor_efficiency) THEN {"motor_efficiency is empty"} ELSE {})

\* __get_base_motor_power
get_base_motor_power(rows) ==
    SetCol(rows, BASE_MOTOR_POWER,
           LAMBDA r : CDiv(CDiv(r[BASE_HYDRAULIC_POWER], r[OLD_PUMP_EFFICIENCY]),
                           r[OLD_MOTOR_EFFICIENCY]))

Column(rows, c) == [i \in 1..Len(rows) |-> rows[i][c]]

\* a gate that also fails at exactly 0.30 x rated
check_discharge_flow_inclusive(rows, rated_flowrate) ==
    CLeq(MaxSeq(Column(rows, DISCHARGE_FLOWRATE)),
         CScale(Rat(3, 10), rated_flowrate))

\* __check_discharge_flow: TRUE when the quality gate raises
check_discharge_flow(rows, rated_flowrate) ==
    CLess(MaxSeq(Column(rows, DISCHARGE_FLOWRATE)),
          CScale(Rat(3, 10), rated_flowrate))

(***************************************************************************)
(* __get_flowrate_percent: np.arange and pd.cut                            *)
(***************************************************************************)
BinStart == Rat(275, 1000)
LabelStart == Rat(30, 100)
\* stop of both aranges: 1 + 5 * percent
BinStop(percent) == RatAdd(One, RatMul(Rat(5, 1), percent))

\* len(np.arange(start, stop, step)) = ceil((stop - start) / step)
arange_len(start, stop, step) ==
    LET q == RatCeil(RatDiv(RatSub(stop, start), step))
    IN  IF q > 0 THEN q ELSE 0

\* np.arange(start, stop, step)[k], k from 0
arange_at(start, step, k) == RatAdd(start, RatMul(Rat(k, 1), step))

NumBins(percent) == arange_len(BinStart, BinStop(percent), percent)
NumLabels(percent) == arange_len(LabelStart, BinStop(percent), percent)

\* variant: every interval carries the label of the next one
cut_next_label(x, percent) ==
    IF x.k # "num" THEN NaN
    ELSE LET v == Eval(x)
             hit == {j \in 0..(NumBins(percent) - 2) :
                        /\ RatLess(arange_at(BinStart, percent, j), v)
                        /\ RatLeq(v, arange_at(BinStart, percent, j + 1))}
         IN  IF hit = {} THEN NaN
             ELSE OfRat(arange_at(LabelStart, percent, 1 + CHOOSE j \in hit : TRUE), 0, 0)

\* pd.cut(x, bins, labels, right=True) on one value, given len(labels) = len(bins)-1
cut(x, percent) ==
    IF x.k # "num" THEN NaN
    ELSE LET v == Eval(x)
             hit == {j \in 0..(NumBins(percent) - 2) :
                        /\ RatLess(arange_at(BinStart, percent, j), v)
                        /\ RatLeq(v, arange_at(BinStart, percent, j + 1))}
         IN  IF hit = {} THEN NaN
             ELSE OfRat(arange_at(LabelStart, percent, CHOOSE j \in hit : TRUE), 0, 0)

\* __get_flowrate_percent.  Result: err, rows
get_flowrate_percent(rows, rated_flowrate, bin_percent) ==
    LET percent == RatOf(bin_percent)
        ratio(r) == CDiv(r[DISCHARGE_FLOWRATE], rated_flowrate)
    IN  IF NumLabels(percent) # NumBins(percent) - 1
        THEN [err |-> Raise("ValueError", "get_flowrate_percent"),
              rows |-> SetCol(rows, FLOWRATE_PERCENT, ratio)]
        ELSE [err |-> NoError,
              rows |-> SetCol(rows, FLOWRATE_PERCENT, LAMBDA r : cut(ratio(r), percent))]

(***************************************************************************)
(* PumpOptimizer.group_by_flowrate_percent                                 *)
(***************************************************************************)
HoursPerYear == 8760

SELECTED_MEASURE == "Selected Measure"
SELECTED_SPEED_VARIATION == "Selected Speed Variation"
NEW_PUMP_EFFICIENCY == "New Pump Efficiency"
NEW_MOTOR_EFFICIENCY == "New Motor Efficiency"
BASE_CASE_ENERGY_CONSUMPTION == "Base Case Energy Consumption"
PROPOSED_CASE_ENERGY_CONSUMPTION == "Proposed Case Energy Consumption"
ANNUAL_ENERGY_SAVING == "Annual Energy Saving"
BASE_CASE_EMISSION == "Base Case Emission"
PROPOSED_CASE_EMISSION == "Proposed Case Emission"
GHG_REDUCTION == "GHG Reduction"
GHG_REDUCTION_PERCENT == "GHG Reduction Percent"

EnergyColumns == {SELECTED_MEASURE, SELECTED_SPEED_VARIATION, NEW_PUMP_EFFICIENCY,
                  NEW_MOTOR_EFFICIENCY, BASE_CASE_ENERGY_CONSUMPTION,
                  PROPOSED_CASE_ENERGY_CONSUMPTION, ANNUAL_ENERGY_SAVING}
EmissionColumns == {BASE_CASE_EMISSION, PROPOSED_CASE_EMISSION, GHG_REDUCTION,
                    GHG_REDUCTION_PERCENT}
CalcColumns == AllColumns \cup EnergyColumns \cup EmissionColumns

\* variant: the samples without a label are left out (dropna=True)
GroupKeys_dropna(rows, percent) ==
    [j \in 1..NumLabels(percent) |-> OfRat(arange_at(LabelStart, percent, j - 1), 0, 0)]

\* the group keys, in groupby order: every label (observed=False), then NaN
\* when some sample has no label (dropna=False)
GroupKeys(rows, percent) ==
    [j \in 1..NumLabels(percent) |-> OfRat(arange_at(LabelStart, percent, j - 1), 0, 0)]
    \o (IF \E i \in 1..Len(rows) : IsNaN(rows[i][FLOWRATE_PERCENT])
        THEN <<NaN>> ELSE <<>>)

\* the samples of one group
GroupOf(rows, key) == SelectSeq(rows, LAMBDA r : r[FLOWRATE_PERCENT] = key)

\* groupby(...).mean(numeric_only=True) joined with groupby(...).size()
GroupMeans(rows, percent) ==
    LET keys == GroupKeys(rows, percent)
    IN  [g \in 1..Len(keys) |->
            LET members == GroupOf(rows, keys[g])
            IN  [c \in CalcColumns |->
                    CASE c = FLOWRATE_PERCENT -> keys[g]
                      [] c = WORKING_HOURS -> Num(Len(members), 1)
                      [] c \in AllColumns -> MeanSeq(Column(members, c))
                      [] OTHER -> NaN]]

\* df[WORKING_PERCENT] = df[WORKING_HOURS] / df[WORKING_HOURS].sum()
with_percent(t) ==
    SetCol(t, WORKING_PERCENT,
           LAMBDA r : CDiv(r[WORKING_HOURS], SumSeq(Column(t, WORKING_HOURS))))

\* df[WORKING_HOURS] = df[WORKING_PERCENT] * 8760
with_hours(t) ==
    SetCol(t, WORKING_HOURS,
           LAMBDA r : CMul(r[WORKING_PERCENT], Num(HoursPerYear, 1)))

\* variant: a share exactly at the minimum is zeroed as well
zero_small_bins_inclusive(t, min_working_percent) ==
    [i \in 1..Len(t) |->
        IF CLeq(t[i][WORKING_PERCENT], min_working_percent)
        THEN [t[i] EXCEPT ![WORKING_HOURS] = Zero, ![WORKING_PERCENT] = Zero]
        ELSE t[i]]

\* both columns are zeroed where the share is below the minimum
zero_small_bins(t, min_working_percent) ==
    [i \in 1..Len(t) |->
        IF CLess(t[i][WORKING_PERCENT], min_working_percent)
        THEN [t[i] EXCEPT ![WORKING_HOURS] = Zero, ![WORKING_PERCENT] = Zero]
        ELSE t[i]]

\* df.loc[df[WORKING_PERCENT] > 0]
positive_bins(t) == SelectSeq(t, LAMBDA r : CGreater(r[WORKING_PERCENT], Zero))

\* a grouping that drops the small bins without renormalising the rest
group_by_without_renormalising(rows, cfg) ==
    positive_bins(
        with_hours(
            zero_small_bins(with_percent(GroupMeans(rows, RatOf(cfg.bin_percent))),
                            cfg.min_working_percent)))

group_by_flowrate_percent(rows, cfg) ==
    LET df2 == with_percent(GroupMeans(rows, RatOf(cfg.bin_percent)))
        zeroed == zero_small_bins(df2, cfg.min_working_percent)
        renorm == with_hours(with_percent(zeroed))
        kept == positive_bins(renorm)
    IN  with_hours(with_percent(kept))

(***************************************************************************)
(* PumpOptimizer.create_energy_calculation                                 *)
(***************************************************************************)
\* Series.max() / Series.min() of speed variations, NaN skipped
RECURSIVE MaxSpeed(_)
MaxSpeed(s) ==
    IF s = <<>> THEN NaN
    ELSE LET m == MaxSpeed(Tail(s))
         IN  IF IsNaN(Head(s)) THEN m
             ELSE IF IsNaN(m) THEN Head(s)
             ELSE IF SLess(m, Head(s)) THEN Head(s) ELSE m

RECURSIVE MinSpeed(_)
MinSpeed(s) ==
    IF s = <<>> THEN NaN
    ELSE LET m == MinSpeed(Tail(s))
         IN  IF IsNaN(Head(s)) THEN m
             ELSE IF IsNaN(m) THEN Head(s)
             ELSE IF SLess(Head(s), m) THEN Head(s) ELSE m

\* a trimming that takes the smallest required speed of the running bins
select_smallest_speed(t) ==
    LET running == SelectSeq(t, LAMBDA r : CGreater(r[WORKING_PERCENT], Zero))
        smallest == MinSpeed(Column(running, REQUIRED_SPEED_VARIATION))
    IN  SetCol(t, SELECTED_SPEED_VARIATION,
               LAMBDA r : IF CLeq(r[WORKING_PERCENT], Zero) THEN Zero
                          ELSE IF r[SELECTED_MEASURE] = Str("Vsd")
                          THEN r[REQUIRED_SPEED_VARIATION]
                          ELSE IF CGreater(r[WORKING_PERCENT], Zero)
                          THEN smallest
                          ELSE r[SELECTED_SPEED_VARIATION])

\* a trimming that only fills the bins no earlier pass has selected
select_unselected_bins(t) ==
    LET running == SelectSeq(t, LAMBDA r : CGreater(r[WORKING_PERCENT], Zero))
        largest == MaxSpeed(Column(running, REQUIRED_SPEED_VARIATION))
    IN  SetCol(t, SELECTED_SPEED_VARIATION,
               LAMBDA r : IF CLeq(r[WORKING_PERCENT], Zero) THEN Zero
                          ELSE IF r[SELECTED_MEASURE] = Str("Vsd")
                          THEN r[REQUIRED_SPEED_VARIATION]
                          ELSE IF /\ CGreater(r[WORKING_PERCENT], Zero)
                                  /\ IsNaN(r[SELECTED_SPEED_VARIATION])
                          THEN largest
                          ELSE r[SELECTED_SPEED_VARIATION])

\* __select_speed_reduction
select_speed_reduction(t) ==
    LET running == SelectSeq(t, LAMBDA r : CGreater(r[WORKING_PERCENT], Zero))
        largest == MaxSpeed(Column(running, REQUIRED_SPEED_VARIATION))
        s1 == SetCol(t, SELECTED_SPEED_VARIATION,
                     LAMBDA r : IF r[SELECTED_MEASURE] = Str("Vsd")
                                THEN r[REQUIRED_SPEED_VARIATION]
                                ELSE r[SELECTED_SPEED_VARIATION])
        s2 == SetCol(s1, SELECTED_SPEED_VARIATION,
                     LAMBDA r : IF /\ r[SELECTED_MEASURE] = Str("Impeller")
                                   /\ CGreater(r[WORKING_PERCENT], Zero)
                                THEN largest
                                ELSE r[SELECTED_SPEED_VARIATION])
    IN  SetCol(s2, SELECTED_SPEED_VARIATION,
               LAMBDA r : IF CLeq(r[WORKING_PERCENT], Zero)
                          THEN Zero ELSE r[SELECTED_SPEED_VARIATION])

\* __get_energy_columns
get_energy_columns(t) ==
    LET e1 == SetCol(t, BASE_CASE_ENERGY_CONSUMPTION,
                     LAMBDA r : CMul(r[BASE_MOTOR_POWER], r[WORKING_HOURS]))
        e2 == SetCol(e1, NEW_PUMP_EFFICIENCY, LAMBDA r : r[OLD_PUMP_EFFICIENCY])
        e3 == SetCol(e2, NEW_MOTOR_EFFICIENCY, LAMBDA r : r[OLD_MOTOR_EFFICIENCY])
        eff_factor(r) ==
            CDiv(CMul(r[NEW_PUMP_EFFICIENCY], r[NEW_MOTOR_EFFICIENCY]),
                 CMul(r[OLD_PUMP_EFFICIENCY], r[OLD_MOTOR_EFFICIENCY]))
        e4 == SetCol(e3, PROPOSED_CASE_ENERGY_CONSUMPTION,
                     LAMBDA r : CMul(CMul(r[BASE_CASE_ENERGY_CONSUMPTION],
                                          Cube(r[SELECTED_SPEED_VARIATION])),
                                     eff_factor(r)))
    IN  SetCol(e4, ANNUAL_ENERGY_SAVING,
               LAMBDA r : CSub(r[BASE_CASE_ENERGY_CONSUMPTION],
                               r[PROPOSED_CASE_ENERGY_CONSUMPTION]))

\* __get_emissions_columns, given the emission factor of the site
get_emissions_columns(t, emission_factor) ==
    LET g1 == SetCol(t, BASE_CASE_EMISSION,
                     LAMBDA r : CMul(r[BASE_CASE_ENERGY_CONSUMPTION], emission_factor))
        g2 == SetCol(g1, PROPOSED_CASE_EMISSION,
                     LAMBDA r : CMul(r[PROPOSED_CASE_ENERGY_CONSUMPTION], emission_factor))
        g3 == SetCol(g2, GHG_REDUCTION,
                     LAMBDA r : CSub(r[BASE_CASE_EMISSION], r[PROPOSED_CASE_EMISSION]))
    IN  SetCol(g3, GHG_REDUCTION_PERCENT,
               LAMBDA r : CDiv(r[GHG_REDUCTION], r[BASE_CASE_EMISSION]))

EQUIPMENT_TAG == "Equipment Tag"
RATED_FLOWRATE == "Rated Flowrate"
EMISSION_FACTOR == "Emission Factor"

\* __summarize: one column of df_summary
summarize(dfenergy, pdata, emission_factor) ==
    LET total(c) == SumSeq(Column(dfenergy, c))
    IN  [equipment_tag |-> pdata.equipment_tag,
         rated_flowrate |-> pdata.rated_flowrate,
         selected_speed_variation |->
             <<MaxSpeed(Column(dfenergy, SELECTED_SPEED_VARIATION)),
               MinSpeed(Column(dfenergy, SELECTED_SPEED_VARIATION))>>,
         base_case_energy_consumption |-> total(BASE_CASE_ENERGY_CONSUMPTION),
         proposed_case_energy_consumption |-> total(PROPOSED_CASE_ENERGY_CONSUMPTION),
         annual_energy_saving |-> total(ANNUAL_ENERGY_SAVING),
         base_case_emission |-> total(BASE_CASE_EMISSION),
         proposed_case_emission |-> total(PROPOSED_CASE_EMISSION),
         emission_factor |-> emission_factor,
         ghg_reduction |-> total(GHG_REDUCTION),
         ghg_reduction_percent |-> CDiv(total(GHG_REDUCTION), total(BASE_CASE_EMISSION))]

\* one pass of the loop of create_energy_calculation over an option
energy_option(t, option, emission_factor) ==
    get_emissions_columns(
        get_energy_columns(
            select_speed_reduction(
                SetCol(t, SELECTED_MEASURE, LAMBDA r : Str(option)))),
        emission_factor)

\* a guard that tests the sign instead of zero
base_case_is_negative(summary) ==
    CLess(summary.Vsd.base_case_energy_consumption, Zero)

\* df_summary["Vsd"][BASE_CASE_ENERGY_CONSUMPTION] == 0
base_case_is_zero(summary) ==
    CEq(summary.Vsd.base_case_energy_consumption, Zero)

\* the tables create_energy_calculation leaves, and whether its guard raises
create_energy_calculation(t, pdata, emission_factor) ==
    Bind(energy_option(t, "Vsd", emission_factor), LAMBDA vsd :
    Bind(energy_option(vsd, "Impeller", emission_factor), LAMBDA imp :
    Bind([Vsd |-> summarize(vsd, pdata, emission_factor),
          Impeller |-> summarize(imp, pdata, emission_factor)], LAMBDA summary :
        [vsd_calculation |-> vsd,
         impeller_calculation |-> imp,
         dfcalculation |-> imp,
         df_summary |-> summary,
         zero_base |-> base_case_is_zero(summary)])))

(***************************************************************************)
(* Economics (rotalysis.economics) and get_economic_calculation            *)
(***************************************************************************)
\* floor(rem * 10^k / d) and what is left, one decimal digit at a time
RECURSIVE Scaled(_, _, _)
Scaled(rem, d, k) ==
    IF k = 0 THEN [q |-> 0, rem |-> rem]
    ELSE LET p == Scaled(rem, d, k - 1)
             t == p.rem * 10
         IN  [q |-> p.q * 10 + (t \div d), rem |-> t % d]

RECURSIVE IntPow(_, _)
IntPow(b, e) == IF e = 0 THEN 1 ELSE b * IntPow(b, e - 1)

\* round(x, digits): to the nearest, ties to even
RoundRat(r, digits) ==
    LET whole == r.n \div r.d
        p == Scaled(r.n - whole * r.d, r.d, digits)
        fl == whole * IntPow(10, digits) + p.q
        up == \/ 2 * p.rem > r.d
              \/ (2 * p.rem = r.d /\ fl % 2 = 1)
    IN  Rat(IF up THEN fl + 1 ELSE fl, IntPow(10, digits))

CRound(c, digits) ==
    CASE c.k = "num" -> OfRat(RoundRat(Eval(c), digits), 0, 0)
      [] OTHER -> c

\* (1 + rate) ** e for an integer e
Growth(rate, e) == OfRat(RatIPow(RatAdd(One, RatOf(rate)), e), 0, 0)

\* np.sum: a NaN makes the sum NaN
RECURSIVE AddAll(_)
AddAll(s) == IF s = <<>> THEN Zero ELSE CAdd(Head(s), AddAll(Tail(s)))

\* Economics.create_cashflow_df: the cash-flow column, years 0..project_life
create_cashflow_df(capex, project_life) ==
    [y \in 1..(project_life + 1) |-> IF y = 1 THEN CNeg(capex) ELSE Zero]

\* an opex that starts to inflate after year 1
inflation_adjusted_from_year_one(opex, inflation_rate, project_life) ==
    [y \in 1..(project_life + 1) |->
        CMul(opex, Growth(inflation_rate, IF y = 1 THEN 0 ELSE y - 2))]

\* Economics.inflation_adjusted_opex, years 0..project_life
inflation_adjusted_opex(opex, inflation_rate, project_life) ==
    [y \in 1..(project_life + 1) |-> CMul(opex, Growth(inflation_rate, y - 1))]

\* numpy_financial.npv
npv_of(rate, values) ==
    AddAll([y \in 1..Len(values) |-> CDiv(values[y], Growth(rate, y - 1))])

\* Economics.annualized_spending
annualized_spending(npv, discount_rate, project_life) ==
    CRound(CMul(CNeg(npv),
                CDiv(discount_rate,
                     CSub(COne, Growth(discount_rate, -project_life)))), 2)

\* a cost of the reduction that divides whatever the reduction is
ghg_reduction_cost_unguarded(spending, ghg_reduction) ==
    CRound(CDiv(spending, ghg_reduction), 2)

\* Economics.ghg_reduction_cost
ghg_reduction_cost(spending, ghg_reduction) ==
    IF CEq(ghg_reduction, Zero) THEN Zero
    ELSE CRound(CDiv(spending, ghg_reduction), 2)

\* cumulative cash flow after the first y years of the table
Cumulative(cash_flows, y) == AddAll(SubSeq(cash_flows, 1, y))

\* the string the payback period is when no year is found
Never == Str("Never")

\* a payback that waits for a cumulative cash flow above 0
calculate_payback_strict(cash_flows) ==
    LET hits == {y \in 1..Len(cash_flows) : CLess(Zero, Cumulative(cash_flows, y))}
    IN  IF hits = {} THEN Never
        ELSE Num((CHOOSE y \in hits : \A z \in hits : y <= z) - 1, 1)

\* Economics.calculate_payback_period: the year as an int, or "Never"
calculate_payback_period(cash_flows) ==
    LET hits == {y \in 1..Len(cash_flows) : CLeq(Zero, Cumulative(cash_flows, y))}
    IN  IF hits = {} THEN Never
        ELSE Num((CHOOSE y \in hits : \A z \in hits : y <= z) - 1, 1)

\* get_economic_calculation: the cash-flow column of dfcashflow
cash_flow_column(capex, opex, savings, cfg) ==
    [y \in 1..(cfg.project_life + 1) |->
        IF y = 1 THEN create_cashflow_df(capex, cfg.project_life)[1]
        ELSE CSub(CMul(savings, cfg.electricity_price),
                  inflation_adjusted_opex(opex, cfg.inflation_rate,
                                          cfg.project_life)[y])]

\* get_economic_calculation: npv, annualized_spending, pay_back and
\* ghg_reduction_cost, before they are rounded into the dictionary
economic_locals(cash_flow, reduction, cfg) ==
    Bind(npv_of(cfg.discount_rate, cash_flow), LAMBDA npv :
    Bind(annualized_spending(npv, cfg.discount_rate, cfg.project_life),
         LAMBDA spending :
        [npv |-> npv,
         annualized_spending |-> spending,
         pay_back |-> calculate_payback_period(cash_flow),
         ghg_reduction_cost |-> ghg_reduction_cost(spending, reduction)]))

\* PumpOptimizer.get_economic_calculation
get_economic_calculation(capex, opex, savings, reduction, cfg) ==
    Bind(cash_flow_column(capex, opex, savings, cfg), LAMBDA cash_flow :
    Bind(economic_locals(cash_flow, reduction, cfg), LAMBDA l :
        [capex |-> CRound(capex, 0),
         npv |-> CRound(l.npv, 0),
         irr |-> "npf.irr",
         payback_period |-> l.pay_back,
         annualized_spending |-> CRound(l.annualized_spending, 0),
         annual_ghg_reduction |-> CRound(reduction, 0),
         ghg_reduction_cost |-> CRound(l.ghg_reduction_cost, 0),
         cash_flow |-> cash_flow]))

\* PumpOptimizer.__get_economics.  Result: err, table
get_economics(summary, pdata, cfg) ==
    LET quote(capex, opex, column) ==
            get_economic_calculation(CDiv(capex, pdata.sparing_factor),
                                     CMul(opex, capex),
                                     column.annual_energy_saving,
                                     column.ghg_reduction, cfg)
    IN  IF pdata.sparing_factor.k \notin {"num", "nan", "inf"}
        THEN [err |-> Raise("TypeError", "get_economics"), table |-> <<>>]
        ELSE [err |-> NoError,
              table |-> [VSD |-> quote(cfg.vsd_capex, cfg.vsd_opex, summary.Vsd),
                         VFD |-> quote(cfg.vfd_capex, cfg.vfd_opex, summary.Vsd),
                         Impeller |-> quote(cfg.impeller_capex, cfg.impeller_opex,
                                            summary.Impeller)]]

(***************************************************************************)
(* Inputs: operation sheets                                                *)
(***************************************************************************)
\* one row of the raw operation sheet; SPEED stands for an irrelevant column
Row(sp, dpr, df, cv, dsp) ==
    [c \in AllColumns |->
        CASE c = SUCTION_PRESSURE -> sp
          [] c = DISCHARGE_PRESSURE -> dpr
          [] c = DISCHARGE_FLOWRATE -> df
          [] c = CV_OPENING -> cv
          [] c = DOWNSTREAM_PRESSURE -> dsp
          [] c = SPEED -> Num(1, 1)
          [] OTHER -> NaN]

N(i) == Num(i, 1)

RowBase   == Row(N(0), N(8), N(5), N(50), N(1))   \* a running sample
RowLow    == Row(N(0), N(8), N(3), N(50), N(1))   \* flow at 0.30 x rated
RowIdle   == Row(N(0), N(8), N(2), N(50), N(1))   \* flow below 0.30 x rated
RowStop   == Row(N(0), N(8), N(0), N(50), N(1))   \* no flow
RowBack   == Row(N(9), N(8), N(5), N(50), N(1))   \* suction above discharge
RowChoke  == Row(N(7), N(8), N(4), N(50), N(1))   \* valve drop above pump head
RowEdge   == Row(N(0), N(8), N(6), N(10), N(8))   \* optional values on the limits
RowGap    == Row(N(0), Txt, N(5), N(50), N(1))    \* mandatory cell not numeric
RowBlank  == Row(N(0), N(8), N(5), Txt, Txt)      \* optional cells not numeric

\* rows that exercise the row filter and the speed law
FilterRows == {RowBase, RowStop, RowBack, RowChoke, RowEdge, RowGap, RowBlank}
\* rows that exercise the quality gate and the bins
BinRows == {RowBase, RowLow, RowIdle}
\* rows met with every other format
NarrowRows == {RowBase, RowEdge}

\* every sheet of at most n rows over a set of rows
RECURSIVE Sheets(_, _)
Sheets(rows, n) ==
    IF n = 0 THEN {<<>>}
    ELSE LET shorter == Sheets(rows, n - 1)
         IN  shorter \cup {Append(t, r) : t \in shorter, r \in rows}

(***************************************************************************)
(* Inputs: unit map, design data, configuration, collaborators             *)
(***************************************************************************)
BaseUnit == [flowrate |-> "m3/hr", pressure |-> "bar"]

BaseProcessData ==
    [equipment_tag |-> "P-101",
     rated_flowrate |-> N(10),
     calculation_method |-> METHOD_DOWNSTREAM,
     valve_size |-> "4",
     valve_character |-> LINEAR,
     density |-> N(1000),
     bep_flowrate |-> Empty,
     bep_efficiency |-> Empty,
     motor_efficiency |-> Num(9, 10),
     sparing_factor |-> N(1)]

BaseConfig ==
    [piping_loss |-> Zero,
     pump_efficiency |-> Num(3, 4),
     bin_percent |-> Num(1, 10),
     min_working_percent |-> Zero,
     min_cv_opening |-> N(10),
     discount_rate |-> Num(1, 4),
     inflation_rate |-> Num(1, 2),
     project_life |-> 2,
     electricity_price |-> N(1),
     vsd_capex |-> N(10), vsd_opex |-> Num(1, 10),
     vfd_capex |-> N(20), vfd_opex |-> Zero,
     impeller_capex |-> N(100), impeller_opex |-> Zero]

\* emission_factor_set: is self.dfemission_factor[site] available
BaseEnv == [emission_factor_set |-> TRUE, emission_factor |-> Num(1, 2),
            writer_fails |-> FALSE]

BaseFormat == [unit |-> BaseUnit, process_data |-> BaseProcessData,
               config |-> BaseConfig, env |-> BaseEnv, columns |-> RawColumns]

WithUnit(f, field, v) == [f EXCEPT !.unit[field] = v]
WithData(f, field, v) == [f EXCEPT !.process_data[field] = v]
WithConfig(f, field, v) == [f EXCEPT !.config[field] = v]
WithEnv(f, field, v) == [f EXCEPT !.env[field] = v]
Without(f, cols) == [f EXCEPT !.columns = @ \ cols]

\* the tag as PumpOptimizer builds it: dfemission_factor is never assigned
Shipped == WithEnv(BaseFormat, "emission_factor_set", FALSE)

\* formats met with every sheet over FilterRows
FilterFormats ==
    {BaseFormat, WithData(BaseFormat, "calculation_method", METHOD_CV)}

\* formats met with every sheet over BinRows
BinFormats ==
    {BaseFormat, Shipped}
    \cup {WithConfig(BaseFormat, "min_working_percent", v) : v \in {Num(1, 2), Num(3, 5)}}
    \cup {WithConfig(BaseFormat, "piping_loss", N(1))}
    \cup {WithData(BaseFormat, "rated_flowrate", N(20))}

UnitFormats ==
    {WithUnit(Shipped, "flowrate", u) :
        u \in {"default", "bpd", "gpm", "GPM", "bph", "mbph", "lpm"}}
    \cup {WithUnit(Shipped, "pressure", u) : u \in {"psi", "kpa"}}
    \cup {Without(WithUnit(Shipped, "pressure", "psi"), {DOWNSTREAM_PRESSURE})}

ColumnFormats ==
    {Without(BaseFormat, S) : S \in (SUBSET Range(mandatory_columns)) \ {{}}}
    \cup {Without(WithData(BaseFormat, "calculation_method", m), S) :
             m \in {METHOD_DOWNSTREAM, METHOD_CV, "", "Speed"},
             S \in {{}, {DOWNSTREAM_PRESSURE}, {CV_OPENING},
                    {DOWNSTREAM_PRESSURE, CV_OPENING}}}

CvFormat == WithData(BaseFormat, "calculation_method", METHOD_CV)
ValveFormats ==
    {WithData(CvFormat, "valve_size", v) : v \in {"", "6"}}
    \cup {WithData(CvFormat, "valve_character", c) :
             c \in {EQUAL_PERCENTAGE, QUICK_OPENING}}
    \cup {WithConfig(CvFormat, "min_cv_opening", N(5))}

DesignFormats ==
    {WithConfig(BaseFormat, "bin_percent", v) : v \in {Num(1, 5), Num(1, 20)}}
    \cup {WithData(WithData(BaseFormat, "bep_flowrate", N(5)), "bep_efficiency", Num(4, 5))}
    \cup {WithData(WithData(BaseFormat, "bep_flowrate", Txt), "bep_efficiency", Txt)}
    \cup {WithData(BaseFormat, "motor_efficiency", Empty)}
    \cup {WithData(BaseFormat, "sparing_factor", v) : v \in {N(2), Txt}}
    \cup {WithEnv(BaseFormat, "writer_fails", TRUE)}

NarrowFormats == UnitFormats \cup ColumnFormats \cup ValveFormats \cup DesignFormats

\* the (format, sheet) pairs a run starts from
Runs ==
    {<<f, t>> : f \in FilterFormats, t \in Sheets(FilterRows, MaxFilterRows)}
    \cup {<<f, t>> : f \in BinFormats, t \in Sheets(BinRows, MaxRows)}
    \cup {<<f, t>> : f \in NarrowFormats, t \in Sheets(NarrowRows, MaxFilterRows)}

(***************************************************************************)
(* One tag: state after PumpDataCleaner.__init__                           *)
(***************************************************************************)
\* an attribute that has not been assigned is <<>>; an assigned one is <<v>>
Unset == <<>>
IsSet(x) == x # <<>>
Val(x) == x[1]

IdleBatch ==
    /\ dftask_list = <<>>
    /\ outcome = <<>>
    /\ window = FALSE
    /\ loop_i = 0
    /\ success = FALSE
    /\ success_count = 0
    /\ pump_bound = 0
    /\ attempts = [todo |-> <<>>, tried |-> <<>>]
    /\ bpc = "idle"

IdleCalc ==
    /\ strategy = ""
    /\ working_percent = <<>>
    /\ calc_df = <<>>
    /\ energy_savings = <<>>
    /\ cpc = "idle"

IdleEcon ==
    /\ economics_args = <<>>
    /\ dfcashflow = <<>>
    /\ economics_locals = <<>>
    /\ economic_calculation = <<>>
    /\ qpc = "idle"

\* PumpFunction.config = None, PumpFunction.process_data = None; no task
IdleClass ==
    /\ PF_process_data = <<>>
    /\ PF_unit = <<>>
    /\ equipment = <<>>
    /\ dfoperation = <<>>
    /\ task_pc = <<>>

IdleOrder ==
    /\ core_table = <<>>
    /\ pump_table = <<>>
    /\ order_pc = <<>>

StartTag(f, t) ==
    /\ unit = f.unit
    /\ process_data = f.process_data
    /\ config = f.config
    /\ env = f.env
    /\ columns = f.columns
    /\ operation_data = Project(t, f.columns)
    /\ dfcalculation = Unset
    /\ vsd_calculation = Unset
    /\ impeller_calculation = Unset
    /\ df_summary = Unset
    /\ df_economics = Unset
    /\ report = Unset
    /\ log = {}
    /\ error = NoError

Init ==
    /\ \E run \in Runs : StartTag(run[1], run[2])
    /\ pc = "new"
    /\ IdleBatch
    /\ IdleCalc
    /\ IdleEcon
    /\ IdleClass
    /\ IdleOrder

\* the exception leaves the method that is running
Fails(e) ==
    /\ pc' = "raised"
    /\ error' = e

\* process_pump re-raises whatever it catches as CustomException
Wrapped(e) == [e EXCEPT !.type = "CustomException"]

(***************************************************************************)
(* PumpDataCleaner.built_data_cleaner, step by step                        *)
(***************************************************************************)
CheckMandatoryColumns ==
    /\ pc = "new"
    /\ \E missing \in {missing_columns(columns)} :
           IF Len(missing) > 0
           THEN Fails([type |-> "CustomException",
                       stage |-> "check_mandatory_columns",
                       names |-> missing])
           ELSE pc' = "checked" /\ error' = error
    /\ UNCHANGED <<unit, process_data, config, env, columns, operation_data,
                   dfcalculation, vsd_calculation, impeller_calculation,
                   df_summary, df_economics, report, log, not_tagvars>>

CleanNonNumericData ==
    /\ pc = "checked"
    /\ \E r \in {Clean_dataframe(operation_data, columns)} :
           /\ operation_data' = r.rows
           /\ columns' = r.cols
    /\ pc' = "cleaned"
    /\ UNCHANGED <<unit, process_data, config, env, dfcalculation,
                   vsd_calculation, impeller_calculation, df_summary,
                   df_economics, report, log, error, not_tagvars>>

RemoveIrrelevantColumns ==
    /\ pc = "cleaned"
    /\ \E r \in {remove_irrelevant_columns(operation_data, columns)} :
           /\ operation_data' = r.rows
           /\ columns' = r.cols
    /\ pc' = "relevant"
    /\ UNCHANGED <<unit, process_data, config, env, dfcalculation,
                   vsd_calculation, impeller_calculation, df_summary,
                   df_economics, report, log, error, not_tagvars>>

ConvertDefaultUnit ==
    /\ pc = "relevant"
    /\ \E r \in {convert_default_unit(operation_data, columns,
                                     process_data.rated_flowrate)} :
           /\ operation_data' = r.rows
           /\ process_data' = [process_data EXCEPT !.rated_flowrate = r.rated]
           /\ IF r.err # NoError THEN Fails(r.err)
              ELSE pc' = "converted" /\ error' = error
    /\ UNCHANGED <<unit, config, env, columns, dfcalculation, vsd_calculation,
                   impeller_calculation, df_summary, df_economics, report,
                   log, not_tagvars>>

RemoveNonOperatingRows ==
    /\ pc = "converted"
    /\ \E r \in {remove_non_operating_rows(operation_data, columns,
                                          process_data.calculation_method,
                                          config.min_cv_opening)} :
           /\ operation_data' = r.rows
           /\ IF r.err # NoError THEN Fails(r.err)
              ELSE pc' = "filtered" /\ error' = error
    /\ UNCHANGED <<unit, process_data, config, env, columns, dfcalculation,
                   vsd_calculation, impeller_calculation, df_summary,
                   df_economics, report, log, not_tagvars>>

SetComputedColumns ==
    /\ pc = "filtered"
    /\ columns' = columns \cup Range(computed_columns)
    /\ pc' = "built"
    /\ UNCHANGED <<unit, process_data, config, env, operation_data,
                   dfcalculation, vsd_calculation, impeller_calculation,
                   df_summary, df_economics, report, log, error, not_tagvars>>

(***************************************************************************)
(* PumpOptimizer.process_pump, step by step                                *)
(***************************************************************************)
\* get_computed_columns: the table after each private step, and the first
\* exception on the way
computed_steps(rows, pdata, cfg) ==
    Bind(get_cv_drop(add_computed_columns(rows), pdata, cfg), LAMBDA b :
        IF b.err # NoError
        THEN [err |-> b.err, rows |-> b.rows, efficiency_done |-> FALSE]
        ELSE Bind(get_base_motor_power(
                      get_efficiency(
                          get_base_hydraulic_power_column(
                              get_required_speed_varation(
                                  get_required_differential_pressure(b.rows))),
                          pdata, cfg)),
                  LAMBDA d :
            IF check_discharge_flow(d, pdata.rated_flowrate)
            THEN [err |-> Raise("CustomException", "check_discharge_flow"),
                  rows |-> d, efficiency_done |-> TRUE]
            ELSE Bind(get_flowrate_percent(d, pdata.rated_flowrate, cfg.bin_percent),
                      LAMBDA e :
                [err |-> e.err, rows |-> e.rows, efficiency_done |-> TRUE])))

GetComputedColumns ==
    /\ pc = "built"
    /\ \E r \in {computed_steps(operation_data, process_data, config)} :
           /\ operation_data' = r.rows
           /\ process_data' =
                 IF r.efficiency_done
                 THEN [process_data EXCEPT
                          !.motor_efficiency = motor_efficiency_after(process_data)]
                 ELSE process_data
           /\ log' = IF r.efficiency_done
                     THEN log \cup efficiency_warnings(process_data) ELSE log
           /\ IF r.err # NoError THEN Fails(Wrapped(r.err))
              ELSE pc' = "computed" /\ error' = error
    /\ UNCHANGED <<unit, config, env, columns, dfcalculation, vsd_calculation,
                   impeller_calculation, df_summary, df_economics, report,
                   not_tagvars>>

GroupByFlowratePercent ==
    /\ pc = "computed"
    /\ dfcalculation' = <<group_by_flowrate_percent(operation_data, config)>>
    /\ pc' = "grouped"
    /\ UNCHANGED <<unit, process_data, config, env, columns, operation_data,
                   vsd_calculation, impeller_calculation, df_summary,
                   df_economics, report, log, error, not_tagvars>>

\* the table when the emission lookup of the first pass raises
before_emissions(t) ==
    get_energy_columns(
        select_speed_reduction(SetCol(t, SELECTED_MEASURE, LAMBDA r : Str("Vsd"))))

CreateEnergyCalculation ==
    /\ pc = "grouped"
    /\ IF ~env.emission_factor_set
       THEN /\ dfcalculation' = <<before_emissions(Val(dfcalculation))>>
            /\ Fails(Wrapped(Raise("AttributeError", "get_emissions_columns")))
            /\ UNCHANGED <<vsd_calculation, impeller_calculation, df_summary>>
       ELSE \E r \in {create_energy_calculation(Val(dfcalculation), process_data,
                                               env.emission_factor)} :
                /\ dfcalculation' = <<r.dfcalculation>>
                /\ vsd_calculation' = <<r.vsd_calculation>>
                /\ impeller_calculation' = <<r.impeller_calculation>>
                /\ df_summary' = <<r.df_summary>>
                /\ IF r.zero_base
                   THEN Fails(Raise("CustomException", "create_energy_calculation"))
                   ELSE pc' = "energy" /\ error' = error
    /\ UNCHANGED <<unit, process_data, config, env, columns, operation_data,
                   df_economics, report, log, not_tagvars>>

\* get_economics_summary catches every exception and logs it
GetEconomicsSummary ==
    /\ pc = "energy"
    /\ \E r \in {get_economics(Val(df_summary), process_data, config)} :
           IF r.err # NoError
           THEN /\ log' = log \cup {"Error while creating economics summary."}
                /\ df_economics' = df_economics
           ELSE /\ df_economics' = <<r.table>>
                /\ log' = log
    /\ pc' = "economics"
    /\ UNCHANGED <<unit, process_data, config, env, columns, operation_data,
                   dfcalculation, vsd_calculation, impeller_calculation,
                   df_summary, report, error, not_tagvars>>

\* write_to_excel catches every exception and logs it
WriteToExcel ==
    /\ pc = "economics"
    /\ IF env.writer_fails \/ ~IsSet(df_economics)
       THEN /\ log' = log \cup {"Error in writing to excel."}
            /\ report' = report
       ELSE /\ report' = <<[Summary |-> Val(df_summary),
                            VsdCalculation |-> Val(vsd_calculation),
                            ImpellerCalculation |-> Val(impeller_calculation),
                            Economics |-> Val(df_economics)]>>
            /\ log' = log
    /\ pc' = "written"
    /\ UNCHANGED <<unit, process_data, config, env, columns, operation_data,
                   dfcalculation, vsd_calculation, impeller_calculation,
                   df_summary, df_economics, error, not_tagvars>>

\* process_pump reaches the end of its try block
ProcessPumpReturns ==
    /\ pc = "written"
    /\ pc' = "returned"
    /\ UNCHANGED <<unit, process_data, config, env, columns, operation_data,
                   dfcalculation, vsd_calculation, impeller_calculation,
                   df_summary, df_economics, report, log, error, not_tagvars>>

Next ==
    \/ CheckMandatoryColumns
    \/ CleanNonNumericData
    \/ RemoveIrrelevantColumns
    \/ ConvertDefaultUnit
    \/ RemoveNonOperatingRows
    \/ SetComputedColumns
    \/ GetComputedColumns
    \/ GroupByFlowratePercent
    \/ CreateEnergyCalculation
    \/ GetEconomicsSummary
    \/ WriteToExcel
    \/ ProcessPumpReturns

Spec == Init /\ [][Next]_vars

(***************************************************************************)
(* Core.process_task: the batch over the task list                         *)
(***************************************************************************)
\* how the try block of one task ends:
\*   locate_fails     get_excel_path finds no workbook, Pump(...) raises
\*   construct_fails  Pump(...) raises on the workbook
\*   process_fails    pump.process_pump raises
\*   no_economics     process_pump returns, df_economics was never assigned
\*   ok               process_pump returns with every result
Outcomes == {"locate_fails", "construct_fails", "process_fails", "no_economics", "ok"}
PumpConstructed == {"process_fails", "no_economics", "ok"}
ProcessReturns == {"no_economics", "ok"}

\* values: the task whose pump the result columns were read from (0: none)
Task(perform) == [Perform |-> perform, Result |-> "", values |-> 0]

TaskLists ==
    UNION {[1..n -> {Task("Y"), Task("N")}] : n \in 0..MaxTasks}

\* task_list = dftask_list.loc[Perform == "Y"]: the index labels, in order
RECURSIVE PerformedFrom(_, _)
PerformedFrom(tasks, i) ==
    IF i > Len(tasks) THEN <<>>
    ELSE (IF tasks[i].Perform = "Y" THEN <<i>> ELSE <<>>)
         \o PerformedFrom(tasks, i + 1)
task_list(tasks) == PerformedFrom(tasks, 1)

IdleTag ==
    /\ StartTag(BaseFormat, <<>>)
    /\ pc = "idle"

\* process_task has taken its snapshot of the tasks to perform; `attempts`
\* keeps the snapshot and the tasks tried so far
InitBatch ==
    /\ IdleTag
    /\ IdleCalc
    /\ IdleEcon
    /\ IdleClass
    /\ IdleOrder
    /\ dftask_list \in TaskLists
    /\ outcome \in [1..Len(dftask_list) -> Outcomes]
    /\ window \in BOOLEAN
    /\ loop_i = 1
    /\ success = FALSE
    /\ success_count = 0
    /\ pump_bound = 0
    /\ attempts = [todo |-> task_list(dftask_list), tried |-> <<>>]
    /\ bpc = "try"

\* the body of the try statement for the task at loop_i
TryTask ==
    /\ bpc = "try"
    /\ loop_i <= Len(attempts.todo)
    /\ LET idx == attempts.todo[loop_i]
       IN  /\ attempts' = [attempts EXCEPT !.tried = Append(@, idx)]
           /\ pump_bound' = IF outcome[idx] \in PumpConstructed
                            THEN idx ELSE pump_bound
           /\ success' = (outcome[idx] \in ProcessReturns)
           /\ success_count' = IF outcome[idx] \in ProcessReturns
                               THEN success_count + 1 ELSE success_count
    /\ bpc' = "progress"
    /\ UNCHANGED <<dftask_list, outcome, window, loop_i, not_batchvars>>

\* variant: a successful task stays marked to be performed
update_tasklist_keeping_perform(task, ok, pump) ==
    IF ok
    THEN [Perform |-> task.Perform, Result |-> "Success", values |-> pump]
    ELSE [task EXCEPT !.Perform = "Y", !.Result = "Failed"]

\* Core.update_tasklist: the row written for a task, given self.success and
\* the pump handed in
update_tasklist(task, ok, pump) ==
    IF ok
    THEN [Perform |-> "N", Result |-> "Success", values |-> pump]
    ELSE [task EXCEPT !.Perform = "Y", !.Result = "Failed"]

\* Core.update_tasklist on a successful task reads pump.df_economics
update_tasklist_raises(idx) == success /\ outcome[idx] = "no_economics"

\* the statements after the try statement: progress, update_tasklist
AfterTask ==
    /\ bpc = "progress"
    /\ LET idx == attempts.todo[loop_i]
       IN  IF ~window
           THEN /\ bpc' = "try"
                /\ loop_i' = loop_i + 1
                /\ dftask_list' = dftask_list
           ELSE IF pump_bound = 0 \/ update_tasklist_raises(idx)
           THEN /\ bpc' = "aborted"      \* UnboundLocalError / AttributeError
                /\ loop_i' = loop_i
                /\ dftask_list' = dftask_list
           ELSE /\ bpc' = "try"
                /\ loop_i' = loop_i + 1
                /\ dftask_list' =
                      [dftask_list EXCEPT ![idx] =
                          update_tasklist(@, success, pump_bound)]
    /\ UNCHANGED <<outcome, window, success, success_count, pump_bound,
                   attempts, not_batchvars>>

\* UF.write_to_excel(self.task_path, self.dftask_list) after the loop
WriteTaskList ==
    /\ bpc = "try"
    /\ loop_i > Len(attempts.todo)
    /\ bpc' = "done"
    /\ UNCHANGED <<dftask_list, outcome, window, loop_i, success, success_count,
                   pump_bound, attempts, not_batchvars>>

NextBatch ==
    \/ TryTask
    \/ AfterTask
    \/ WriteTaskList

SpecBatch == InitBatch /\ [][NextBatch]_vars

(***************************************************************************)
(* EnergySavingsCalculator (rotalysis.pump.energy_calculator) on a table   *)
(* of historian data: calculation_mode is HISTORIAN_DATA and the caller    *)
(* hands in dfcalculation, so get_dfcalculation returns that table         *)
(***************************************************************************)
MaxBins == 2

VARIABLE_SPEED_DRIVE == "VARIABLE_SPEED_DRIVE"
DISCHARGE_VALVE_THROTTLING == "DISCHARGE_VALVE_THROTTLING"

\* defaults[OLD_MOTOR_EFFICIENCY]
DefaultOldMotorEfficiency == Num(9, 10)

\* one bin of a caller's table; the columns the caller does not give are NaN
Bin(required, percent, power, efficiency) ==
    [c \in CalcColumns |->
        CASE c = REQUIRED_SPEED_VARIATION -> required
          [] c = WORKING_PERCENT -> percent
          [] c = BASE_MOTOR_POWER -> power
          [] c = OLD_PUMP_EFFICIENCY -> efficiency
          [] OTHER -> NaN]

Bins ==
    {Bin(s, w, N(4), e) : s \in {N(1), Num(1, 2), NaN},
                          w \in {Zero, Num(1, 2)},
                          e \in {Num(3, 4), Zero}}

\* the bins get their flowrate-percent labels by position
Labelled(t) ==
    [i \in 1..Len(t) |-> [t[i] EXCEPT ![FLOWRATE_PERCENT] = Num(i, 10)]]

BinTables == {Labelled(t) : t \in Sheets(Bins, MaxBins)}

\* a selection that leaves the idle bins as the strategy set them
calculator_select_without_zeroing(t, strat) ==
    IF strat = VARIABLE_SPEED_DRIVE
    THEN SetCol(t, SELECTED_SPEED_VARIATION, LAMBDA r : r[REQUIRED_SPEED_VARIATION])
    ELSE SetCol(t, SELECTED_SPEED_VARIATION,
                LAMBDA r : IF CGreater(r[WORKING_PERCENT], Zero)
                           THEN MaxSpeed(Column(
                                    SelectSeq(t, LAMBDA q : CGreater(q[WORKING_PERCENT], Zero)),
                                    REQUIRED_SPEED_VARIATION))
                           ELSE r[SELECTED_SPEED_VARIATION])

\* _select_speed_reduction, after the merge with self.working_percent
calculator_select_speed_reduction(t, strat) ==
    LET running == SelectSeq(t, LAMBDA r : CGreater(r[WORKING_PERCENT], Zero))
        largest == MaxSpeed(Column(running, REQUIRED_SPEED_VARIATION))
        s1 == IF strat = VARIABLE_SPEED_DRIVE
              THEN SetCol(t, SELECTED_SPEED_VARIATION,
                          LAMBDA r : r[REQUIRED_SPEED_VARIATION])
              ELSE t
        s2 == IF strat = DISCHARGE_VALVE_THROTTLING
              THEN SetCol(s1, SELECTED_SPEED_VARIATION,
                          LAMBDA r : IF CGreater(r[WORKING_PERCENT], Zero)
                                     THEN largest
                                     ELSE r[SELECTED_SPEED_VARIATION])
              ELSE s1
    IN  SetCol(s2, SELECTED_SPEED_VARIATION,
               LAMBDA r : IF CLeq(r[WORKING_PERCENT], Zero)
                          THEN Zero ELSE r[SELECTED_SPEED_VARIATION])

\* energy columns that scale by the new efficiency, not by the ratio
calculator_energy_without_ratio(t) ==
    LET e0 == SetCol(t, WORKING_HOURS,
                     LAMBDA r : CMul(r[WORKING_PERCENT], Num(HoursPerYear, 1)))
        e1 == SetCol(e0, BASE_CASE_ENERGY_CONSUMPTION,
                     LAMBDA r : CMul(r[BASE_MOTOR_POWER], r[WORKING_HOURS]))
        e2 == SetCol(e1, NEW_PUMP_EFFICIENCY, LAMBDA r : r[OLD_PUMP_EFFICIENCY])
        e3 == SetCol(e2, PROPOSED_CASE_ENERGY_CONSUMPTION,
                     LAMBDA r : CMul(CMul(r[BASE_CASE_ENERGY_CONSUMPTION],
                                          Cube(r[SELECTED_SPEED_VARIATION])),
                                     r[NEW_PUMP_EFFICIENCY]))
    IN  SetCol(e3, ANNUAL_ENERGY_SAVING,
               LAMBDA r : CSub(r[BASE_CASE_ENERGY_CONSUMPTION],
                               r[PROPOSED_CASE_ENERGY_CONSUMPTION]))

\* energy columns that divide by the cube of the speed variation
calculator_energy_inverse_cube(t) ==
    LET e0 == SetCol(t, WORKING_HOURS,
                     LAMBDA r : CMul(r[WORKING_PERCENT], Num(HoursPerYear, 1)))
        e1 == SetCol(e0, BASE_CASE_ENERGY_CONSUMPTION,
                     LAMBDA r : CMul(r[BASE_MOTOR_POWER], r[WORKING_HOURS]))
        e2 == SetCol(e1, NEW_PUMP_EFFICIENCY, LAMBDA r : r[OLD_PUMP_EFFICIENCY])
        e3 == SetCol(e2, PROPOSED_CASE_ENERGY_CONSUMPTION,
                     LAMBDA r : CDiv(r[BASE_CASE_ENERGY_CONSUMPTION],
                                     Cube(r[SELECTED_SPEED_VARIATION])))
    IN  SetCol(e3, ANNUAL_ENERGY_SAVING,
               LAMBDA r : CSub(r[BASE_CASE_ENERGY_CONSUMPTION],
                               r[PROPOSED_CASE_ENERGY_CONSUMPTION]))

\* EnergySavingsCalculator.__get_energy_columns, before its final filter
calculator_get_energy_columns(t) ==
    LET e0 == SetCol(t, WORKING_HOURS,
                     LAMBDA r : CMul(r[WORKING_PERCENT], Num(HoursPerYear, 1)))
        e1 == SetCol(e0, BASE_CASE_ENERGY_CONSUMPTION,
                     LAMBDA r : CMul(r[BASE_MOTOR_POWER], r[WORKING_HOURS]))
        e2 == SetCol(e1, NEW_PUMP_EFFICIENCY, LAMBDA r : r[OLD_PUMP_EFFICIENCY])
        eff_factor(r) ==
            CDiv(CMul(r[NEW_PUMP_EFFICIENCY], DefaultOldMotorEfficiency),
                 CMul(r[OLD_PUMP_EFFICIENCY], DefaultOldMotorEfficiency))
        e3 == SetCol(e2, PROPOSED_CASE_ENERGY_CONSUMPTION,
                     LAMBDA r : CMul(CMul(r[BASE_CASE_ENERGY_CONSUMPTION],
                                          Cube(r[SELECTED_SPEED_VARIATION])),
                                     eff_factor(r)))
    IN  SetCol(e3, ANNUAL_ENERGY_SAVING,
               LAMBDA r : CSub(r[BASE_CASE_ENERGY_CONSUMPTION],
                               r[PROPOSED_CASE_ENERGY_CONSUMPTION]))

\* a calculator has been constructed on a caller's table
InitCalc ==
    /\ IdleTag
    /\ IdleBatch
    /\ IdleEcon
    /\ IdleClass
    /\ IdleOrder
    /\ strategy \in {VARIABLE_SPEED_DRIVE, DISCHARGE_VALVE_THROTTLING}
    /\ calc_df \in {<<t>> : t \in BinTables}
    /\ working_percent \in {<<>>, <<Val(calc_df)>>}
    /\ energy_savings = <<>>
    /\ cpc = "new"

\* df = self._select_speed_reduction().  A working_percent table is merged
\* on the label; both tables have a working-percent column, the merged
\* table has the two under suffixed names and df[WORKING_PERCENT] raises
\* KeyError
SelectSpeedReduction ==
    /\ cpc = "new"
    /\ IF working_percent # <<>>
       THEN /\ cpc' = "raised"
            /\ calc_df' = calc_df
       ELSE /\ calc_df' = <<calculator_select_speed_reduction(Val(calc_df), strategy)>>
            /\ cpc' = "selected"
    /\ UNCHANGED <<strategy, working_percent, energy_savings, not_calcvars>>

\* return self.__get_energy_columns(df): the columns are set on the caller's
\* table, the bins with a positive working percent are returned
GetEnergyColumns ==
    /\ cpc = "selected"
    /\ \E t \in {calculator_get_energy_columns(Val(calc_df))} :
           /\ calc_df' = <<t>>
           /\ energy_savings' = <<positive_bins(t)>>
    /\ cpc' = "returned"
    /\ UNCHANGED <<strategy, working_percent, not_calcvars>>

NextCalc ==
    \/ SelectSpeedReduction
    \/ GetEnergyColumns

SpecCalc == InitCalc /\ [][NextCalc]_vars

(***************************************************************************)
(* One call of PumpOptimizer.get_economic_calculation, on its own          *)
(***************************************************************************)
MaxLife == 2

EconConfigs ==
    {[BaseConfig EXCEPT !.project_life = n, !.inflation_rate = i] :
        n \in 1..MaxLife, i \in {Zero, Num(1, 2)}}

\* the arguments of one call and the configuration of the optimizer
InitEcon ==
    /\ IdleTag
    /\ IdleBatch
    /\ IdleCalc
    /\ IdleClass
    /\ IdleOrder
    /\ economics_args \in
          [capex : {Zero, N(10), N(30)},
           opex : {Zero, N(1)},
           annual_energy_savings : {Zero, N(5), N(10), N(20)},
           annual_emission_reduction : {Zero, N(3), N(-3)},
           config : EconConfigs]
    /\ dfcashflow = <<>>
    /\ economics_locals = <<>>
    /\ economic_calculation = <<>>
    /\ qpc = "new"

\* create_cashflow_df and the fuel cost, opex and cash-flow columns
BuildCashflow ==
    /\ qpc = "new"
    /\ dfcashflow' = <<cash_flow_column(economics_args.capex,
                                        economics_args.opex,
                                        economics_args.annual_energy_savings,
                                        economics_args.config)>>
    /\ qpc' = "cashflow"
    /\ UNCHANGED <<economics_args, economics_locals, economic_calculation,
                   not_econvars>>

\* npv, irr, annualized spending, payback and cost of the GHG reduction
EvaluateCashflow ==
    /\ qpc = "cashflow"
    /\ economics_locals' =
          <<economic_locals(Val(dfcashflow),
                            economics_args.annual_emission_reduction,
                            economics_args.config)>>
    /\ qpc' = "evaluated"
    /\ UNCHANGED <<economics_args, dfcashflow, economic_calculation,
                   not_econvars>>

\* the dictionary of rounded values is returned
ReturnCalculation ==
    /\ qpc = "evaluated"
    /\ economic_calculation' =
          <<get_economic_calculation(economics_args.capex,
                                     economics_args.opex,
                                     economics_args.annual_energy_savings,
                                     economics_args.annual_emission_reduction,
                                     economics_args.config)>>
    /\ qpc' = "returned"
    /\ UNCHANGED <<economics_args, dfcashflow, economics_locals, not_econvars>>

NextEcon ==
    \/ BuildCashflow
    \/ EvaluateCashflow
    \/ ReturnCalculation

SpecEcon == InitEcon /\ [][NextEcon]_vars

\* the two places where a strategy is applied to a bin table: the pipeline
\* of one tag and the calculator on a caller's table
InitEnergy == Init \/ InitCalc

NextEnergy == Next \/ NextCalc

SpecEnergy == InitEnergy /\ [][NextEnergy]_vars

(***************************************************************************)
(* The class-level implementation: PumpFunction keeps config, process_data *)
(* and unit as class attributes, and the loop body of Core.process_task    *)
(* (src/core.py) sets them for a tag and then calls the static stages,     *)
(* which read them back from the class.  Two tasks run the loop body with  *)
(* their stages interleaved.  PumpFunction.config is set once by           *)
(* Core.intialize and is the same for every tag.                           *)
(***************************************************************************)
Tasks == {"A", "B"}

\* discharge_flowrate_conversion.get(flowrate_unit, 1)
PF_flowrate_conversion_get(u) ==
    CASE u = "m3/hr"   -> Rat(1, 1)
      [] u = "default" -> Rat(1, 1)
      [] u = "BPD"     -> Rat(66245, 10000000)
      [] u = "gpm"     -> Rat(22712, 100000)
      [] u = "BPH"     -> Rat(15899, 100000)
      [] OTHER         -> Rat(1, 1)

\* the files of a task: dfprocess, dfunit and the operation sheet
EquipmentFiles ==
    [dfprocess : [rated_flow : {Rat(10, 1), Rat(20, 1)},
                  calculation_method : {"downstream_pressure", "cv_opening"}],
     dfunit : [flowrate : {"m3/hr", "gpm"}, pressure : {"bar", "psi"}]]

\* the operation sheet of every task: one sample, no cv_opening column
LoadedOperation ==
    [discharge_flowrate |-> Rat(10, 1), suction_pressure |-> Rat(1, 1),
     discharge_pressure |-> Rat(5, 1), downstream_pressure |-> Rat(3, 1)]

\* PumpFunction.convert_default_unit(df), reading the unit map u
PF_convert_default_unit(df, u) ==
    [df EXCEPT
       !.discharge_flowrate = RatMul(@, PF_flowrate_conversion_get(u.flowrate)),
       !.suction_pressure = RatMul(@, pressure_conversion_get(u.pressure)),
       !.discharge_pressure = RatMul(@, pressure_conversion_get(u.pressure)),
       !.downstream_pressure = RatMul(@, pressure_conversion_get(u.pressure))]

\* PumpFunction.remove_abnormal_rows(df), reading the design data p: the
\* sheet has no cv_opening column, so that method raises ValueError
PF_remove_abnormal_rows(df, p) ==
    IF p.calculation_method = "downstream_pressure"
    THEN IF /\ RatLess(Rat(0, 1), df.discharge_flowrate)
            /\ RatLess(df.suction_pressure, df.discharge_pressure)
            /\ RatLess(df.downstream_pressure, df.discharge_pressure)
         THEN [err |-> "", rows |-> <<df>>]
         ELSE [err |-> "", rows |-> <<>>]
    ELSE [err |-> "ValueError", rows |-> <<>>]

\* PumpFunction.get_computed_columns(df), reading the design data p: the
\* differential pressure and the ratio get_flowrate_percent hands to pd.cut
PF_get_computed_columns(rows, p) ==
    [i \in 1..Len(rows) |->
        [discharge_flowrate |-> rows[i].discharge_flowrate,
         differential_pressure |->
             RatSub(rows[i].discharge_pressure, rows[i].suction_pressure),
         flowrate_percent |->
             RatDiv(rows[i].discharge_flowrate, p.rated_flow)]]

\* UF.load_equipment_data has returned for both tasks
InitClass ==
    /\ IdleTag
    /\ IdleBatch
    /\ IdleCalc
    /\ IdleEcon
    /\ IdleOrder
    /\ PF_process_data = <<>>
    /\ PF_unit = <<>>
    /\ equipment \in [Tasks -> EquipmentFiles]
    /\ dfoperation = [t \in Tasks |-> <<LoadedOperation>>]
    /\ task_pc = [t \in Tasks |-> "loaded"]

\* PF.set_process_data(dfprocess); PF.remove_irrelevant_columns(dfoperation)
SetProcessData(t) ==
    /\ task_pc[t] = "loaded"
    /\ PF_process_data' = equipment[t].dfprocess
    /\ task_pc' = [task_pc EXCEPT ![t] = "process_set"]
    /\ UNCHANGED <<PF_unit, equipment, dfoperation>>
    /\ UNCHANGED not_classvars

\* PF.set_unit(dfunit)
SetUnit(t) ==
    /\ task_pc[t] = "process_set"
    /\ PF_unit' = equipment[t].dfunit
    /\ task_pc' = [task_pc EXCEPT ![t] = "unit_set"]
    /\ UNCHANGED <<PF_process_data, equipment, dfoperation>>
    /\ UNCHANGED not_classvars

\* PF.convert_default_unit(dfoperation): reads PumpFunction.unit
ClassConvertDefaultUnit(t) ==
    /\ task_pc[t] = "unit_set"
    /\ dfoperation' = [dfoperation EXCEPT
           ![t] = <<PF_convert_default_unit(@[1], PF_unit)>>]
    /\ task_pc' = [task_pc EXCEPT ![t] = "converted"]
    /\ UNCHANGED <<PF_process_data, PF_unit, equipment>>
    /\ UNCHANGED not_classvars

\* PF.remove_abnormal_rows(dfoperation): reads PumpFunction.process_data; a
\* ValueError ends the loop body in the except clause
ClassRemoveAbnormalRows(t) ==
    /\ task_pc[t] = "converted"
    /\ \E r \in {PF_remove_abnormal_rows(dfoperation[t][1], PF_process_data)} :
          /\ dfoperation' = [dfoperation EXCEPT
                 ![t] = IF r.err = "" THEN r.rows ELSE @]
          /\ task_pc' = [task_pc EXCEPT
                 ![t] = IF r.err = "" THEN "filtered" ELSE "failed"]
    /\ UNCHANGED <<PF_process_data, PF_unit, equipment>>
    /\ UNCHANGED not_classvars

\* PF.get_computed_columns(dfoperation): reads PumpFunction.process_data
ClassGetComputedColumns(t) ==
    /\ task_pc[t] = "filtered"
    /\ dfoperation' = [dfoperation EXCEPT
           ![t] = PF_get_computed_columns(@, PF_process_data)]
    /\ task_pc' = [task_pc EXCEPT ![t] = "computed"]
    /\ UNCHANGED <<PF_process_data, PF_unit, equipment>>
    /\ UNCHANGED not_classvars

NextClass ==
    \E t \in Tasks :
        \/ SetProcessData(t)
        \/ SetUnit(t)
        \/ ClassConvertDefaultUnit(t)
        \/ ClassRemoveAbnormalRows(t)
        \/ ClassGetComputedColumns(t)

SpecClass == InitClass /\ [][NextClass]_vars

(***************************************************************************)
(* The two orchestrators of rotalysis.pump.Pump: Core.process_task of      *)
(* src/rotalysis/core.py filters the rows and then converts the units,     *)
(* Pump.process_pump converts and then filters.  Both start from the table *)
(* left by clean_non_numeric_data and remove_irrelevant_columns; each has  *)
(* its own Pump, so the rated flow one converts is not seen by the other.  *)
(***************************************************************************)
OrderFormats ==
    {WithUnit(WithUnit(WithData(BaseFormat, "calculation_method", m),
                       "flowrate", fu), "pressure", pu) :
        m \in {METHOD_DOWNSTREAM, METHOD_CV},
        fu \in {"m3/hr", "gpm"}, pu \in {"bar", "psi"}}

\* clean_non_numeric_data, then remove_irrelevant_columns
Prepared(rows, cols) ==
    Bind(Clean_dataframe(rows, cols),
         LAMBDA c : remove_irrelevant_columns(c.rows, c.cols))

InitOrder ==
    /\ \E f \in OrderFormats, t \in Sheets(FilterRows, MaxFilterRows) :
          /\ StartTag(f, t)
          /\ core_table = Prepared(Project(t, f.columns), f.columns)
          /\ pump_table = Prepared(Project(t, f.columns), f.columns)
    /\ pc = "idle"
    /\ order_pc = [core |-> "relevant", pump |-> "relevant"]
    /\ IdleBatch
    /\ IdleCalc
    /\ IdleEcon
    /\ IdleClass

\* p1.remove_non_operating_rows() of Core.process_task
ProcessTaskFilter ==
    /\ order_pc.core = "relevant"
    /\ \E r \in {remove_non_operating_rows(core_table.rows, core_table.cols,
                                          process_data.calculation_method,
                                          config.min_cv_opening)} :
          /\ core_table' = [core_table EXCEPT !.rows = r.rows]
          /\ order_pc' = [order_pc EXCEPT
                 !.core = IF r.err = NoError THEN "filtered" ELSE "raised"]
    /\ UNCHANGED <<pump_table, not_ordervars>>

\* p1.convert_default_unit() of Core.process_task
ProcessTaskConvert ==
    /\ order_pc.core = "filtered"
    /\ \E r \in {convert_default_unit(core_table.rows, core_table.cols,
                                     process_data.rated_flowrate)} :
          /\ core_table' = [core_table EXCEPT !.rows = r.rows]
          /\ order_pc' = [order_pc EXCEPT
                 !.core = IF r.err = NoError THEN "done" ELSE "raised"]
    /\ UNCHANGED <<pump_table, not_ordervars>>

\* self.convert_default_unit() of Pump.process_pump
ProcessPumpConvert ==
    /\ order_pc.pump = "relevant"
    /\ \E r \in {convert_default_unit(pump_table.rows, pump_table.cols,
                                     process_data.rated_flowrate)} :
          /\ pump_table' = [pump_table EXCEPT !.rows = r.rows]
          /\ order_pc' = [order_pc EXCEPT
                 !.pump = IF r.err = NoError THEN "converted" ELSE "raised"]
    /\ UNCHANGED <<core_table, not_ordervars>>

\* self.remove_non_operating_rows() of Pump.process_pump
ProcessPumpFilter ==
    /\ order_pc.pump = "converted"
    /\ \E r \in {remove_non_operating_rows(pump_table.rows, pump_table.cols,
                                          process_data.calculation_method,
                                          config.min_cv_opening)} :
          /\ pump_table' = [pump_table EXCEPT !.rows = r.rows]
          /\ order_pc' = [order_pc EXCEPT
                 !.pump = IF r.err = NoError THEN "done" ELSE "raised"]
    /\ UNCHANGED <<core_table, not_ordervars>>

NextOrder ==
    \/ ProcessTaskFilter
    \/ ProcessTaskConvert
    \/ ProcessPumpConvert
    \/ ProcessPumpFilter

SpecOrder == InitOrder /\ [][NextOrder]_vars

(***************************************************************************)
(* UtilityFunction.Clean_dataframe on raw sheets: clean_non_numeric_data   *)
(* applied to tables with text, blanks and numbers written as text         *)
(***************************************************************************)
MaxCleanRows == 3

CleanColumns == {SUCTION_PRESSURE, DISCHARGE_PRESSURE, DISCHARGE_FLOWRATE}

RawRow(sp, dpr, df) ==
    [c \in AllColumns |->
        CASE c = SUCTION_PRESSURE -> sp
          [] c = DISCHARGE_PRESSURE -> dpr
          [] c = DISCHARGE_FLOWRATE -> df
          [] OTHER -> NaN]

RawRows ==
    {RawRow(sp, dpr, df) : sp \in {N(1), Txt, NumTxt(4)},
                           dpr \in {N(2), NaN},
                           df \in {N(3), Txt}}

\* the table clean_non_numeric_data is called on
InitClean ==
    /\ \E t \in Sheets(RawRows, MaxCleanRows) :
          StartTag([BaseFormat EXCEPT !.columns = CleanColumns], t)
    /\ pc = "checked"
    /\ IdleBatch
    /\ IdleCalc
    /\ IdleEcon
    /\ IdleClass
    /\ IdleOrder

SpecClean == InitClean /\ [][CleanNonNumericData]_vars

(***************************************************************************)
(* Properties                                                              *)
(***************************************************************************)
\* the stages a run is at once process_pump has passed a given step
AfterConvert == {"converted", "filtered", "built", "computed", "grouped",
                 "energy", "economics", "written", "returned"}
AfterFilter == {"filtered", "built", "computed", "grouped", "energy",
                "economics", "written", "returned"}
AfterGate == {"computed", "grouped", "energy", "economics", "written",
              "returned"}
AfterEnergy == {"energy", "economics", "written", "returned"}

RaisedAt(stage) == pc = "raised" /\ error.stage = stage

\* C1: batch isolation.  process_task is never aborted by a failing task, and
\* when it reaches the final task-list write every task with Perform = "Y"
\* has been attempted exactly once, in list order.
C1_BatchIsolation ==
    /\ bpc # "aborted"
    /\ bpc = "done" => attempts.tried = attempts.todo

RECURSIVE RatTotal(_)
RatTotal(s) ==
    IF s = <<>> THEN [n |-> 0, d |-> 1]
    ELSE RatAdd([n |-> Head(s).n, d |-> Head(s).d], RatTotal(Tail(s)))

AllNumbers(s) == \A i \in 1..Len(s) : s[i].k = "num"

BinsSumToOne(t) ==
    /\ AllNumbers(Column(t, WORKING_PERCENT))
    /\ AllNumbers(Column(t, WORKING_HOURS))
    /\ RatTotal(SelectSeq(Column(t, WORKING_PERCENT), LAMBDA c : c.n > 0))
          = [n |-> 1, d |-> 1]
    /\ RatTotal(Column(t, WORKING_HOURS)) = [n |-> 8760, d |-> 1]

\* C3 as stated: every table group_by_flowrate_percent produces has working
\* percents (over the bins with a positive percent) that sum to 1 and working
\* hours that sum to 8760.
C3_EveryTableSumsToOne ==
    IsSet(dfcalculation) => BinsSumToOne(Val(dfcalculation))

\* C3, amended: every table group_by_flowrate_percent produces that has at
\* least one bin has only bins with a positive working percent, the percents
\* sum to 1 and the working hours sum to 8760.
C3_NonEmptyTableSumsToOne ==
    (IsSet(dfcalculation) /\ Val(dfcalculation) # <<>>) =>
        /\ BinsSumToOne(Val(dfcalculation))
        /\ \A i \in 1..Len(Val(dfcalculation)) :
              Val(dfcalculation)[i][WORKING_PERCENT].n > 0

\* three samples in two bins, the smaller bin under the threshold: one bin left
C3_Witness ==
    /\ pc = "grouped"
    /\ config.min_working_percent = Num(1, 2)
    /\ Len(operation_data) = 3
    /\ \E i, j \in 1..3 :
          operation_data[i][FLOWRATE_PERCENT] # operation_data[j][FLOWRATE_PERCENT]
    /\ Len(Val(dfcalculation)) = 1

\* the mandatory columns the table does not have
AbsentMandatory ==
    {SUCTION_PRESSURE, DISCHARGE_PRESSURE, DISCHARGE_FLOWRATE} \ columns

\* C4: the mandatory-column check fails iff a mandatory column is absent, and
\* the error names exactly the absent mandatory columns, each once.
C4_MissingMandatoryColumns ==
    /\ pc = "checked" => AbsentMandatory = {}
    /\ RaisedAt("check_mandatory_columns") =>
          /\ error.type = "CustomException"
          /\ AbsentMandatory # {}
          /\ Range(error.names) = AbsentMandatory
          /\ Len(error.names) = Cardinality(AbsentMandatory)

\* a table without discharge pressure only: the error names that column
C4_Witness ==
    /\ RaisedAt("check_mandatory_columns")
    /\ SUCTION_PRESSURE \in columns
    /\ DISCHARGE_FLOWRATE \in columns
    /\ error.names = <<DISCHARGE_PRESSURE>>

\* every sample's flow is below 0.30 x rated flow, both in the same unit
\* (flow and rated flow carry the same positive conversion factor)
MaxFlowBelowGate ==
    /\ operation_data # <<>>
    /\ \A i \in 1..Len(operation_data) :
          10 * operation_data[i][DISCHARGE_FLOWRATE].n * process_data.rated_flowrate.d
             < 3 * process_data.rated_flowrate.n * operation_data[i][DISCHARGE_FLOWRATE].d

\* C5: when the largest cleaned flow is below 0.30 x rated flow,
\* get_computed_columns fails and no energy scenario is produced; when it is
\* at least 0.30 x rated flow the gate does not fail.
C5_QualityGate ==
    /\ pc \in AfterGate => ~MaxFlowBelowGate
    /\ IsSet(dfcalculation) => ~MaxFlowBelowGate
    /\ RaisedAt("check_discharge_flow") =>
          /\ MaxFlowBelowGate
          /\ error.type = "CustomException"
          /\ ~IsSet(vsd_calculation)
          /\ ~IsSet(impeller_calculation)
          /\ ~IsSet(df_summary)

\* the gate has stopped a run whose samples are all under 0.30 x rated flow
C5_Witness ==
    /\ RaisedAt("check_discharge_flow")
    /\ Len(operation_data) >= 2

\* C6: with a flow unit outside {m3/hr, default, bpd, gpm, bph, mbph} (in
\* any letter case) or a pressure unit outside {bar, psi},
\* convert_default_unit fails and cleaning does not complete.
C6_UnsupportedUnitIsFatal ==
    (\/ Lower(unit.flowrate) \notin {"m3/hr", "default", "bpd", "gpm", "bph", "mbph"}
     \/ unit.pressure \notin {"bar", "psi"})
        => pc \notin AfterConvert

\* C7: remove_non_operating_rows succeeds only when the calculation method is
\* one of the two recognised methods and the column of that method is in the
\* table; when it raises, it raises CustomException.
C7_CalculationMethod ==
    /\ pc \in AfterFilter =>
          \/ /\ process_data.calculation_method = "Downstream Pressure"
             /\ "Downstream Pressure" \in columns
          \/ /\ process_data.calculation_method = "CV Opening"
             /\ "CV Opening" \in columns
    /\ RaisedAt("remove_non_operating_rows") => error.type = "CustomException"

\* the CV method without a CV opening column is refused
C7_Witness ==
    /\ RaisedAt("remove_non_operating_rows")
    /\ process_data.calculation_method = "CV Opening"
    /\ "CV Opening" \notin columns
    /\ AbsentMandatory = {}

\* C8: in a bin table the energy calculation has accepted, the required speed
\* variation is never NaN or infinite.
C8_SpeedLawGuard ==
    pc \in AfterEnergy =>
        \A i \in 1..Len(Val(dfcalculation)) :
            Val(dfcalculation)[i][REQUIRED_SPEED_VARIATION].k \notin {"nan", "inf"}

\* the base-case energy of the Vsd table sums to zero: no bin has a value
\* other than zero (every base-case energy is a number >= 0, NaN is skipped)
ZeroBaseCase ==
    \A i \in 1..Len(Val(vsd_calculation)) :
        LET c == Val(vsd_calculation)[i][BASE_CASE_ENERGY_CONSUMPTION]
        IN  (c.k = "nan") \/ (c.k = "num" /\ c.n = 0)

\* C9: create_energy_calculation raises whenever the base-case energy summed
\* over the bins is zero (an empty bin table included), and then no economics
\* is evaluated for the tag.
C9_ZeroBaseCaseGuard ==
    /\ pc \in AfterEnergy => ~ZeroBaseCase
    /\ (IsSet(vsd_calculation) /\ ZeroBaseCase) =>
          /\ RaisedAt("create_energy_calculation")
          /\ error.type = "CustomException"
          /\ ~IsSet(df_economics)
    /\ IsSet(vsd_calculation) =>
          \A i \in 1..Len(Val(vsd_calculation)) :
             LET c == Val(vsd_calculation)[i][BASE_CASE_ENERGY_CONSUMPTION]
             IN  c.k = "nan" \/ (c.k = "num" /\ c.n >= 0)

\* the guard has stopped a run with an empty bin table
C9_Witness ==
    /\ RaisedAt("create_energy_calculation")
    /\ IsSet(vsd_calculation)
    /\ Val(vsd_calculation) = <<>>

\* a < b for two numbers of the table that carry the same conversion factor
NumberLess(a, b) == a.k = "num" /\ b.k = "num" /\ a.n * b.d < b.n * a.d

\* the rows the filter is to keep
Survives(r) ==
    /\ \A c \in {SUCTION_PRESSURE, DISCHARGE_PRESSURE, DISCHARGE_FLOWRATE} :
          r[c].k = "num"
    /\ r[DISCHARGE_FLOWRATE].n > 0
    /\ NumberLess(r[SUCTION_PRESSURE], r[DISCHARGE_PRESSURE])
    /\ process_data.calculation_method = "Downstream Pressure" =>
          NumberLess(r[DOWNSTREAM_PRESSURE], r[DISCHARGE_PRESSURE])
    /\ process_data.calculation_method = "CV Opening" =>
          NumberLess(config.min_cv_opening, r[CV_OPENING])

\* C10: when remove_non_operating_rows succeeds, the table it leaves is the
\* input rows, in their order, that have the three mandatory values, a flow
\* above zero, suction below discharge pressure and, by method, a numeric
\* downstream pressure below discharge pressure or a numeric CV opening above
\* the minimum opening.
C10_RowFilter ==
    [][(RemoveNonOperatingRows /\ pc' = "filtered") =>
          operation_data' = SelectSeq(operation_data, Survives)]_vars

\* the filter has kept one row of a longer CV-method sheet
C10_Witness ==
    /\ pc = "filtered"
    /\ process_data.calculation_method = "CV Opening"
    /\ Len(operation_data) = 1
    /\ operation_data[1][CV_OPENING] = Num(50, 1)

\* a bin with a working percent above zero / at or below zero
Running(r) == r[WORKING_PERCENT].k = "num" /\ r[WORKING_PERCENT].n > 0
Idle(r) == r[WORKING_PERCENT].k = "num" /\ r[WORKING_PERCENT].n <= 0

\* s is the largest required speed variation of the running bins of t (NaN
\* is no value; with no value at all the largest is NaN)
IsLargestRequired(t, s) ==
    LET vals == {t[i][REQUIRED_SPEED_VARIATION] :
                    i \in {j \in 1..Len(t) :
                              /\ Running(t[j])
                              /\ ~IsNaN(t[j][REQUIRED_SPEED_VARIATION])}}
    IN  IF vals = {} THEN IsNaN(s)
        ELSE s \in vals /\ \A v \in vals : ~SLess(s, v)

\* every bin runs at its own required speed variation
EveryBinFollows(t) ==
    \A i \in 1..Len(t) :
        t[i][SELECTED_SPEED_VARIATION] = t[i][REQUIRED_SPEED_VARIATION]

\* every running bin runs at its own required speed variation, every idle
\* bin has the speed variation 0
RunningBinsFollow(t) ==
    \A i \in 1..Len(t) :
        /\ Running(t[i]) =>
              t[i][SELECTED_SPEED_VARIATION] = t[i][REQUIRED_SPEED_VARIATION]
        /\ Idle(t[i]) => t[i][SELECTED_SPEED_VARIATION] = Zero

\* every running bin has the largest required speed variation of the running
\* bins, every idle bin has the speed variation 0
Trimmed(t) ==
    \A i \in 1..Len(t) :
        /\ Running(t[i]) => IsLargestRequired(t, t[i][SELECTED_SPEED_VARIATION])
        /\ Idle(t[i]) => t[i][SELECTED_SPEED_VARIATION] = Zero

\* the calculator has applied its strategy to the table
Selected == cpc \in {"selected", "returned"}

\* C11 as stated: under VSD every bin has its required speed variation as
\* the selected one; under trimming every running bin has the largest
\* required speed variation of the running bins and every idle bin has 0.
C11_EveryVsdBinFollows ==
    /\ IsSet(vsd_calculation) => EveryBinFollows(Val(vsd_calculation))
    /\ IsSet(impeller_calculation) => Trimmed(Val(impeller_calculation))
    /\ (Selected /\ strategy = VARIABLE_SPEED_DRIVE) =>
          EveryBinFollows(Val(calc_df))
    /\ (Selected /\ strategy = DISCHARGE_VALVE_THROTTLING) =>
          Trimmed(Val(calc_df))

\* C11, amended: under either strategy every idle bin has the selected speed
\* variation 0; under VSD every running bin has its required speed
\* variation; under trimming every running bin has the largest required
\* speed variation of the running bins.
C11_StrategySelection ==
    /\ IsSet(vsd_calculation) => RunningBinsFollow(Val(vsd_calculation))
    /\ IsSet(impeller_calculation) => Trimmed(Val(impeller_calculation))
    /\ (Selected /\ strategy = VARIABLE_SPEED_DRIVE) =>
          RunningBinsFollow(Val(calc_df))
    /\ (Selected /\ strategy = DISCHARGE_VALVE_THROTTLING) =>
          Trimmed(Val(calc_df))

\* VSD on a table with a running bin and an idle bin that requires speed
C11_Witness ==
    /\ cpc = "selected"
    /\ strategy = VARIABLE_SPEED_DRIVE
    /\ Len(Val(calc_df)) = 2
    /\ Running(Val(calc_df)[1])
    /\ Idle(Val(calc_df)[2])
    /\ Val(calc_df)[2][REQUIRED_SPEED_VARIATION] = N(1)
    /\ Val(calc_df)[2][SELECTED_SPEED_VARIATION] = Zero

\* the bin tables that carry the energy columns
EnergyTables ==
    (IF IsSet(vsd_calculation) THEN {Val(vsd_calculation)} ELSE {})
    \cup (IF IsSet(impeller_calculation) THEN {Val(impeller_calculation)} ELSE {})
    \cup (IF cpc = "returned" THEN {Val(calc_df), Val(energy_savings)} ELSE {})

\* at speed variation 1 the proposed case is the base case, nothing is saved
NoChangeAtFullSpeed(r) ==
    CEq(r[SELECTED_SPEED_VARIATION], N(1)) =>
        /\ CEq(r[PROPOSED_CASE_ENERGY_CONSUMPTION], r[BASE_CASE_ENERGY_CONSUMPTION])
        /\ CEq(r[ANNUAL_ENERGY_SAVING], Zero)

\* C12 as stated: in every bin with selected speed variation 1 the proposed
\* energy consumption equals the base-case consumption and the annual saving
\* is 0.
C12_EveryBinAtFullSpeed ==
    \A t \in EnergyTables : \A i \in 1..Len(t) : NoChangeAtFullSpeed(t[i])

\* a number other than 0
NonZeroNumber(c) == c.k = "num" /\ c.n # 0

\* the efficiencies the ratio of a bin divides by are numbers other than 0:
\* the pump and the motor efficiency in the pipeline, the pump efficiency in
\* the calculator (its motor efficiency is the default 0.9)
RatioDefined(r) ==
    /\ NonZeroNumber(r[OLD_PUMP_EFFICIENCY])
    /\ IsNaN(r[SELECTED_MEASURE]) \/ NonZeroNumber(r[OLD_MOTOR_EFFICIENCY])
    /\ r[BASE_CASE_ENERGY_CONSUMPTION].k = "num"

\* C12, amended: in every bin with selected speed variation 1 whose old
\* efficiencies are numbers other than 0 and whose base-case consumption is
\* a number, the proposed energy consumption equals the base-case consumption
\* and the annual saving is 0.
C12_AffinityBoundary ==
    \A t \in EnergyTables : \A i \in 1..Len(t) :
        RatioDefined(t[i]) => NoChangeAtFullSpeed(t[i])

\* a running bin at speed variation 1 with pump efficiency 0.75
C12_Witness ==
    /\ cpc = "returned"
    /\ \E i \in 1..Len(Val(energy_savings)) :
          LET r == Val(energy_savings)[i]
          IN  /\ r[SELECTED_SPEED_VARIATION] = N(1)
              /\ r[OLD_PUMP_EFFICIENCY] = Num(3, 4)
              /\ r[BASE_CASE_ENERGY_CONSUMPTION] = N(17520)
              /\ r[PROPOSED_CASE_ENERGY_CONSUMPTION] = N(17520)

\* two bins of one table with the same base-case consumption above 0, the
\* first at the lower speed variation, both speed variations in (0, 1]
SlowerAtSameBase(a, b) ==
    /\ RatioDefined(a) /\ RatioDefined(b)
    /\ CEq(a[BASE_CASE_ENERGY_CONSUMPTION], b[BASE_CASE_ENERGY_CONSUMPTION])
    /\ CGreater(a[BASE_CASE_ENERGY_CONSUMPTION], Zero)
    /\ SLess(Zero, a[SELECTED_SPEED_VARIATION])
    /\ SLess(a[SELECTED_SPEED_VARIATION], b[SELECTED_SPEED_VARIATION])
    /\ ~SLess(N(1), b[SELECTED_SPEED_VARIATION])

\* C13 as stated: at a fixed base-case consumption, the bin with the larger
\* speed variation in (0, 1] has the strictly smaller proposed consumption.
C13_LargerSpeedLowerEnergy ==
    \A t \in EnergyTables : \A i, j \in 1..Len(t) :
        SlowerAtSameBase(t[i], t[j]) =>
            CLess(t[j][PROPOSED_CASE_ENERGY_CONSUMPTION],
                  t[i][PROPOSED_CASE_ENERGY_CONSUMPTION])

\* C13, amended: at a fixed base-case consumption above 0, the bin with the
\* larger speed variation in (0, 1] has the strictly larger proposed
\* consumption.
C13_LargerSpeedHigherEnergy ==
    \A t \in EnergyTables : \A i, j \in 1..Len(t) :
        SlowerAtSameBase(t[i], t[j]) =>
            CLess(t[i][PROPOSED_CASE_ENERGY_CONSUMPTION],
                  t[j][PROPOSED_CASE_ENERGY_CONSUMPTION])

\* VSD on two bins of equal base case, at half speed and at full speed
C13_Witness ==
    /\ cpc = "returned"
    /\ strategy = VARIABLE_SPEED_DRIVE
    /\ Len(Val(energy_savings)) = 2
    /\ SlowerAtSameBase(Val(energy_savings)[1], Val(energy_savings)[2])
    /\ Val(energy_savings)[1][REQUIRED_SPEED_VARIATION] = Num(1, 2)
    /\ Val(energy_savings)[1][PROPOSED_CASE_ENERGY_CONSUMPTION] = N(2190)
    /\ Val(energy_savings)[2][PROPOSED_CASE_ENERGY_CONSUMPTION] = N(17520)

\* the exact sum of the cash flows of the years 0..t
RECURSIVE RunningSum(_, _)
RunningSum(cash_flows, t) ==
    IF t < 0 THEN [n |-> 0, d |-> 1]
    ELSE RatAdd(Eval(cash_flows[t + 1]), RunningSum(cash_flows, t - 1))

\* C14: the payback period is the first year at which the running sum of the
\* cash flows from year 0 on is at least 0, and it is the string "Never",
\* not a number, exactly when the running sum is below 0 at every year.
C14_PaybackPeriod ==
    qpc = "returned" =>
        LET cash_flows == Val(dfcashflow)
            last == Len(cash_flows) - 1
            payback == Val(economic_calculation).payback_period
        IN  /\ AllNumbers(cash_flows)
            /\ last = economics_args.config.project_life
            /\ (payback = Str("Never")) <=>
                  \A t \in 0..last : RunningSum(cash_flows, t).n < 0
            /\ payback # Str("Never") =>
                  /\ payback.k = "num" /\ payback.d = 1
                  /\ payback.n \in 0..last
                  /\ RunningSum(cash_flows, payback.n).n >= 0
                  /\ \A t \in 0..(payback.n - 1) :
                        RunningSum(cash_flows, t).n < 0

\* the savings of year 1 repay the capex to the cent: payback in year 1
C14_Witness ==
    /\ qpc = "returned"
    /\ Val(dfcashflow)[1] = N(-10)
    /\ RunningSum(Val(dfcashflow), 1).n = 0
    /\ Val(economic_calculation).payback_period = N(1)

\* the call has computed the cost of the GHG reduction
Evaluated == qpc \in {"evaluated", "returned"}

\* spending / reduction as an exact rational, for a reduction other than 0
ExactCost ==
    RatDiv(Eval(Val(economics_locals).annualized_spending),
           Eval(economics_args.annual_emission_reduction))

\* C15 as stated: with a reduction of 0 the cost of the reduction is 0,
\* whatever the spending; with another reduction it is spending / reduction.
C15_CostIsExactQuotient ==
    Evaluated =>
        LET cost == Val(economics_locals).ghg_reduction_cost
        IN  IF economics_args.annual_emission_reduction = Zero
            THEN cost = Zero
            ELSE cost.k = "num" /\ RatOf(cost) = ExactCost

\* C15, amended: with a reduction of 0 the cost of the reduction is 0,
\* whatever the spending; with another reduction it is spending / reduction
\* rounded to two decimals (a multiple of 0.01 within 0.005 of the quotient).
C15_GhgCostGuard ==
    Evaluated =>
        LET cost == Val(economics_locals).ghg_reduction_cost
        IN  IF economics_args.annual_emission_reduction = Zero
            THEN cost = Zero
            ELSE /\ cost.k = "num"
                 /\ 100 % cost.d = 0
                 /\ RatLeq(RatMul([n |-> 200, d |-> 1],
                                   RatSub(RatOf(cost), ExactCost)),
                            One)
                 /\ RatLeq(RatMul([n |-> 200, d |-> 1],
                                   RatSub(ExactCost, RatOf(cost))),
                            One)

\* a project that costs money each year and reduces no emission
C15_Witness ==
    /\ qpc = "evaluated"
    /\ economics_args.annual_emission_reduction = Zero
    /\ Val(economics_locals).annualized_spending.n > 0
    /\ Val(economics_locals).ghg_reduction_cost = Zero

\* savings x electricity price - opex x (1 + inflation rate)^t, exactly; the
\* first year of the table is year 0
ExpectedCashFlow(t) ==
    RatSub(RatMul(Eval(economics_args.annual_energy_savings),
                  Eval(economics_args.config.electricity_price)),
           RatMul(Eval(economics_args.opex),
                  RatPow(RatAdd(One, Eval(economics_args.config.inflation_rate)), t)))

\* C16: the cash-flow table has exactly the years 0..project_life, the cash
\* flow of year 0 is -capex and the cash flow of every year t from 1 on is
\* savings x electricity price - opex x (1 + inflation rate)^(t - 0).
C16_CashFlowTable ==
    qpc \in {"cashflow", "evaluated", "returned"} =>
        LET cash_flows == Val(dfcashflow)
        IN  /\ Len(cash_flows) = economics_args.config.project_life + 1
            /\ AllNumbers(cash_flows)
            /\ Eval(cash_flows[1]) = RatNeg(Eval(economics_args.capex))
            /\ \A t \in 1..economics_args.config.project_life :
                  Eval(cash_flows[t + 1]) = ExpectedCashFlow(t)

\* two years at 50 % inflation: the opex of 1 has grown to 2.25 in year 2
C16_Witness ==
    /\ qpc = "cashflow"
    /\ economics_args.config.project_life = 2
    /\ economics_args.config.inflation_rate = Num(1, 2)
    /\ economics_args.opex = N(1)
    /\ economics_args.annual_energy_savings = N(10)
    /\ economics_args.capex = N(30)
    /\ Val(dfcashflow) = <<N(-30), Num(17, 2), Num(31, 4)>>

\* the loop body run for one task with nothing else running: every stage
\* reads what the task itself has set
AloneBody(e) ==
    Bind(PF_remove_abnormal_rows(
             PF_convert_default_unit(LoadedOperation, e.dfunit), e.dfprocess),
         LAMBDA r :
             IF r.err = ""
             THEN [pc |-> "computed",
                   df |-> PF_get_computed_columns(r.rows, e.dfprocess)]
             ELSE [pc |-> "failed",
                   df |-> <<PF_convert_default_unit(LoadedOperation,
                                                    e.dfunit)>>])

Finished(t) == task_pc[t] \in {"computed", "failed"}

\* C17: with the stages of two tags interleaved, each tag's result equals
\* its result when run alone: a tag that has finished its loop body has
\* ended where it ends alone, with the table it has alone.
C17_TagIsolation ==
    \A t \in Tasks :
        t \in DOMAIN task_pc /\ Finished(t) =>
            /\ task_pc[t] = AloneBody(equipment[t]).pc
            /\ dfoperation[t] = AloneBody(equipment[t]).df

DesignFields == DOMAIN BaseProcessData

\* the rated flow is left alone or replaced by its unit-normalised value
RatedFlowNormalised ==
    \/ process_data'.rated_flowrate = process_data.rated_flowrate
    \/ /\ pc = "relevant"
       /\ process_data'.rated_flowrate = ConvertFlow(process_data.rated_flowrate)

\* C18 (as stated): no step of the run of a tag changes a design-data field
\* other than the rated flow, which is replaced by its unit-normalised
\* value.
C18_OnlyRatedFlowChanges ==
    [][/\ RatedFlowNormalised
       /\ \A f \in DesignFields \ {"rated_flowrate"} :
              process_data'[f] = process_data[f]]_vars

\* C18: no step of the run of a tag changes a design-data field other than
\* the rated flow and the motor efficiency; the rated flow is replaced by
\* its unit-normalised value by convert_default_unit, and the motor
\* efficiency changes only when it was empty, to the default 0.9, in
\* get_computed_columns.
C18_DesignDataFrame ==
    [][/\ RatedFlowNormalised
       /\ pc = "relevant" /\ pc' = "converted" =>
              process_data'.rated_flowrate =
                  ConvertFlow(process_data.rated_flowrate)
       /\ \A f \in DesignFields \ {"rated_flowrate", "motor_efficiency"} :
              process_data'[f] = process_data[f]
       /\ \/ process_data'.motor_efficiency = process_data.motor_efficiency
          \/ /\ pc = "built"
             /\ is_empty_cell(process_data.motor_efficiency)
             /\ process_data'.motor_efficiency = DefaultMotorEfficiency]_vars

\* a complete run whose empty motor efficiency was filled in
C18_Witness ==
    /\ pc = "written"
    /\ "motor_efficiency is empty" \in log
    /\ process_data.motor_efficiency = DefaultMotorEfficiency

\* the samples group_by_flowrate_percent has grouped, and their labels
Labels == {operation_data[i][FLOWRATE_PERCENT] : i \in 1..Len(operation_data)}
SamplesOf(key) ==
    {i \in 1..Len(operation_data) : operation_data[i][FLOWRATE_PERCENT] = key}

\* n_b / N is not below the configured minimum
ShareNotBelowMinimum(key) ==
    ~CLess(Num(Cardinality(SamplesOf(key)), Len(operation_data)),
           config.min_working_percent)
KeptLabels == {key \in Labels : ShareNotBelowMinimum(key)}
KeptSamples == UNION {SamplesOf(key) : key \in KeptLabels}

RECURSIVE Total(_, _)
Total(cells, S) ==
    IF S = {} THEN Zero
    ELSE Bind(CHOOSE i \in S : TRUE,
              LAMBDA i : CAdd(cells[i], Total(cells, S \ {i})))

\* the arithmetic mean of column c over the samples S
ArithmeticMean(c, S) ==
    CDiv(Total([i \in 1..Len(operation_data) |-> operation_data[i][c]], S),
         Num(Cardinality(S), 1))

MeasuredColumns == AllColumns \ {FLOWRATE_PERCENT, WORKING_HOURS, WORKING_PERCENT}

\* C19: a bin is in the table iff it has a sample and its share n_b / N is
\* not below the minimum working percent; a kept bin has working_percent =
\* n_b / (samples of the kept bins), working_hours = 8760 x working_percent,
\* and in every other numeric column the arithmetic mean of its samples.
C19_AggregationAndThreshold ==
    (pc = "grouped" /\ IsSet(dfcalculation)) =>
        /\ {Val(dfcalculation)[j][FLOWRATE_PERCENT] :
               j \in 1..Len(Val(dfcalculation))} = KeptLabels
        /\ Len(Val(dfcalculation)) = Cardinality(KeptLabels)
        /\ \A j \in 1..Len(Val(dfcalculation)) :
             \E b \in {Val(dfcalculation)[j]} :
               \E S \in {SamplesOf(b[FLOWRATE_PERCENT])} :
                 /\ b[WORKING_PERCENT] =
                        Num(Cardinality(S), Cardinality(KeptSamples))
                 /\ b[WORKING_HOURS] =
                        Num(HoursPerYear * Cardinality(S),
                            Cardinality(KeptSamples))
                 /\ \A c \in MeasuredColumns :
                        (\A i \in S : IsNum(operation_data[i][c])) =>
                            b[c] = ArithmeticMean(c, S)

\* two samples in two bins with a minimum of one half: both bins are exactly
\* at the minimum and both are kept, each with half of the year
C19_Witness ==
    /\ pc = "grouped"
    /\ config.min_working_percent = Num(1, 2)
    /\ Cardinality(KeptLabels) = 2
    /\ \A key \in KeptLabels :
          Num(Cardinality(SamplesOf(key)), Len(operation_data)) =
              config.min_working_percent
    /\ Len(Val(dfcalculation)) = 2
    /\ \A j \in 1..2 : Val(dfcalculation)[j][WORKING_HOURS] = Num(4380, 1)

\* the last edge of the bins of pd.cut
LastBinEdge ==
    arange_at(BinStart, RatOf(config.bin_percent),
              NumBins(RatOf(config.bin_percent)) - 1)

\* the samples whose flow fraction falls in no bin
FlowFraction(i) ==
    Eval(CDiv(operation_data[i][DISCHARGE_FLOWRATE], process_data.rated_flowrate))
OutOfRange ==
    {i \in 1..Len(operation_data) :
        \/ RatLeq(FlowFraction(i), BinStart)
        \/ RatLess(LastBinEdge, FlowFraction(i))}

Grouped == pc \in {"grouped", "energy"} /\ error = NoError

\* the rows of a table that carry the label NaN
NaNRows(t) == {j \in 1..Len(t) : IsNaN(t[j][FLOWRATE_PERCENT])}

\* C20: the samples out of the range of the bins are exactly the samples
\* without a label; they form one group whose row count is part of the total
\* the shares are taken of, and that group is a row of the bin table, and of
\* both energy scenarios, iff its share is not below the minimum working
\* percent, with its share of the kept samples as working percent.
C20_OutOfRangeRetained ==
    Grouped =>
        /\ OutOfRange = SamplesOf(NaN)
        /\ \E t \in {Val(dfcalculation)} :
              IF OutOfRange # {} /\ ShareNotBelowMinimum(NaN)
              THEN /\ Cardinality(NaNRows(t)) = 1
                   /\ \A j \in NaNRows(t) :
                         t[j][WORKING_PERCENT] =
                             Num(Cardinality(OutOfRange), Cardinality(KeptSamples))
                   /\ OutOfRange \subseteq KeptSamples
              ELSE NaNRows(t) = {}
        /\ pc = "energy" =>
              /\ Cardinality(NaNRows(Val(vsd_calculation))) =
                     Cardinality(NaNRows(Val(dfcalculation)))
              /\ Cardinality(NaNRows(Val(impeller_calculation))) =
                     Cardinality(NaNRows(Val(dfcalculation)))

\* one sample below the first edge and two in a bin: the unlabelled group
\* holds a third of the year in both scenarios
C20_Witness ==
    /\ pc = "energy"
    /\ Cardinality(OutOfRange) = 1
    /\ Len(operation_data) = 3
    /\ \E j \in NaNRows(Val(vsd_calculation)) :
          Val(vsd_calculation)[j][WORKING_PERCENT] = Num(1, 3)
    /\ \E j \in NaNRows(Val(impeller_calculation)) :
          Val(impeller_calculation)[j][WORKING_PERCENT] = Num(1, 3)

\* the k-th interval of the bins (k from 0) holds the ratio v: right-closed
InInterval(k, v) ==
    /\ RatLess(arange_at(BinStart, RatOf(config.bin_percent), k), v)
    /\ RatLeq(v, arange_at(BinStart, RatOf(config.bin_percent), k + 1))

\* C21: for every configured step the samples are discretised: the stage
\* does not fail, a sample whose ratio lies in the k-th right-closed interval
\* of width step from 0.275 carries the label 0.30 + k x step, and that
\* label is the upper value of its interval.
C21_FlowFractionBinning ==
    /\ ~RaisedAt("get_flowrate_percent")
    /\ pc = "computed" =>
          \A i \in 1..Len(operation_data) :
              \A k \in 0..(NumBins(RatOf(config.bin_percent)) - 2) :
                  InInterval(k, FlowFraction(i)) =>
                      /\ operation_data[i][FLOWRATE_PERCENT] =
                             OfRat(arange_at(LabelStart,
                                             RatOf(config.bin_percent), k), 0, 0)
                      /\ RatOf(operation_data[i][FLOWRATE_PERCENT]) =
                             arange_at(BinStart, RatOf(config.bin_percent), k + 1)

\* C21, amended: the stage fails exactly when the label sequence is not one
\* shorter than the edge sequence; otherwise a sample whose ratio lies in the
\* k-th right-closed interval of width step from 0.275 carries the label
\* 0.30 + k x step, and a sample whose ratio lies in no interval carries none.
C21_BinningWhereDefined ==
    /\ RaisedAt("get_flowrate_percent") =>
          NumLabels(RatOf(config.bin_percent)) #
              NumBins(RatOf(config.bin_percent)) - 1
    /\ pc = "computed" =>
          /\ NumLabels(RatOf(config.bin_percent)) =
                 NumBins(RatOf(config.bin_percent)) - 1
          /\ \A i \in 1..Len(operation_data) :
                /\ \A k \in 0..(NumBins(RatOf(config.bin_percent)) - 2) :
                      InInterval(k, FlowFraction(i)) =>
                          operation_data[i][FLOWRATE_PERCENT] =
                              OfRat(arange_at(LabelStart,
                                              RatOf(config.bin_percent), k), 0, 0)
                /\ i \in OutOfRange <=> IsNaN(operation_data[i][FLOWRATE_PERCENT])

\* a sample in a later interval whose label is not the upper value of the
\* interval
C21_Witness ==
    /\ pc = "computed"
    /\ \E i \in 1..Len(operation_data) :
          \E k \in 1..(NumBins(RatOf(config.bin_percent)) - 2) :
              /\ InInterval(k, FlowFraction(i))
              /\ IsNum(operation_data[i][FLOWRATE_PERCENT])
              /\ RatLess(RatOf(operation_data[i][FLOWRATE_PERCENT]),
                         arange_at(BinStart, RatOf(config.bin_percent), k + 1))

\* C29: for every configured step the label sequence has exactly one element
\* fewer than the edge sequence when the discretisation is reached, and the
\* discretisation never fails.
C29_EdgeLabelConsistency ==
    /\ pc = "built" =>
          NumLabels(RatOf(config.bin_percent)) =
              NumBins(RatOf(config.bin_percent)) - 1
    /\ pc = "raised" => error.stage # "get_flowrate_percent"

\* opening / 100, its cube and its square root
OpeningFactor(character, opening) ==
    CASE character = LINEAR -> CDiv(opening, Num(100, 1))
      [] character = EQUAL_PERCENTAGE ->
            Cube(CDiv(opening, Num(100, 1)))
      [] character = QUICK_OPENING -> CSqrt(CDiv(opening, Num(100, 1)))

ValveCharacters == {LINEAR, EQUAL_PERCENTAGE, QUICK_OPENING}

CvBranch ==
    /\ process_data.calculation_method = METHOD_CV
    /\ process_data.valve_character \in ValveCharacters

\* C22: under the cv_opening method an empty valve size is fatal, and with a
\* valve size of the table each of the three characteristics gives actual_cv
\* = rated_cv x factor (opening/100, its cube, its square root) and an
\* inherent piping loss of 0; the rated-Cv lookup does not fail.
C22_CvOpeningBranch ==
    CvBranch =>
        /\ pc \in AfterGate => ~is_empty_value(process_data.valve_size)
        /\ process_data.valve_size \in ValveSizes =>
              /\ ~RaisedAt("get_rated_cv")
              /\ pc = "computed" =>
                    \A i \in 1..Len(operation_data) :
                        /\ operation_data[i][INHERENT_PIPING_LOSS] = Zero
                        /\ operation_data[i][ACTUAL_CV] =
                               CMul(df_rated_cv(process_data.valve_size,
                                                process_data.valve_character),
                                    OpeningFactor(process_data.valve_character,
                                                  operation_data[i][CV_OPENING]))

\* a cell that holds a number, typed or written as text, and the number
IsNumeric(c) == c.k \in {"num", "numtxt"}
NumberOf(c) == [c EXCEPT !.k = "num"]

\* the j-th smallest element of a set of indices
Nth(S, j) == CHOOSE i \in S : Cardinality({x \in S : x <= i}) = j

\* the rows of a table with a number in one of the columns
NumericRows(t, cols) ==
    {i \in 1..Len(t) : \E c \in cols : IsNumeric(t[i][c])}

\* out over outcols is the cleaned form of t over cols
IsCleaned(t, cols, out, outcols) ==
    /\ outcols = {c \in cols : \E i \in 1..Len(t) : IsNumeric(t[i][c])}
    /\ Len(out) = Cardinality(NumericRows(t, cols))
    /\ \A j \in 1..Len(out) : \A c \in outcols :
          \E cell \in {t[Nth(NumericRows(t, cols), j)][c]} :
              out[j][c] = IF IsNumeric(cell) THEN NumberOf(cell) ELSE NaN
    /\ \A j \in 1..Len(out) : \E c \in outcols : IsNum(out[j][c])
    /\ \A c \in outcols : \E j \in 1..Len(out) : IsNum(out[j][c])
    /\ \A j \in 1..Len(out) : \A c \in outcols :
          IsNum(out[j][c]) \/ IsNaN(out[j][c])

\* C23: Clean_dataframe leaves a table in which every cell is a number or
\* empty, no row and no column is entirely empty, the rows with a number
\* keep their order at index 0..n-1, and every number of the input is in
\* its place, unchanged; the rows and columns removed are those without a
\* number.
C23_NumericCleaning ==
    [][(pc = "checked" /\ pc' = "cleaned") =>
          IsCleaned(operation_data, columns, operation_data', columns')]_vars

\* a cleaned table of two rows over two columns with an emptied cell
C23_Witness ==
    /\ pc = "cleaned"
    /\ columns = {SUCTION_PRESSURE, DISCHARGE_PRESSURE}
    /\ Len(operation_data) = 2
    /\ operation_data[1][SUCTION_PRESSURE] = N(4)
    /\ IsNaN(operation_data[1][DISCHARGE_PRESSURE])
    /\ IsNaN(operation_data[2][SUCTION_PRESSURE])
    /\ operation_data[2][DISCHARGE_PRESSURE] = N(2)

\* the steps of built_data_cleaner that can raise
CleanerStages == {"check_mandatory_columns", "convert_default_unit",
                  "remove_non_operating_rows"}

\* C24: every failure of built_data_cleaner is a CustomException, and a
\* failure over a mandatory column that is missing from the table is the one
\* of the mandatory-column check, also when numeric cleaning dropped it.
C24_TypedCleanerFailures ==
    (pc = "raised" /\ error.stage \in CleanerStages) =>
        /\ error.type = "CustomException"
        /\ ~(Range(mandatory_columns) \subseteq columns) =>
              error.stage = "check_mandatory_columns"

\* the tasks process_task has attempted
Attempted == Range(attempts.tried)

\* the pipeline of a task completed without raising
Completed(idx) == outcome[idx] \in ProcessReturns

\* C25: after process_task has finished with a progress window attached,
\* an attempted task has Result = "Success" and Perform = "N" iff its
\* pipeline completed without raising, and Result = "Failed" and Perform =
\* "Y" otherwise; success_count is the number of tasks marked "Success" and
\* at most the number of attempted tasks; the values written for a task are
\* those of its own pump.
C25_TaskListBookkeeping ==
    (bpc = "done" /\ window) =>
        /\ \A idx \in Attempted :
              IF Completed(idx)
              THEN /\ dftask_list[idx].Result = "Success"
                   /\ dftask_list[idx].Perform = "N"
                   /\ dftask_list[idx].values = idx
              ELSE /\ dftask_list[idx].Result = "Failed"
                   /\ dftask_list[idx].Perform = "Y"
                   /\ dftask_list[idx].values = 0
        /\ success_count =
               Cardinality({idx \in 1..Len(dftask_list) :
                               dftask_list[idx].Result = "Success"})
        /\ success_count <= Len(attempts.tried)

\* a finished batch with a window: the first task succeeded, the second
\* failed before its pump was constructed
C25_Witness ==
    /\ bpc = "done"
    /\ window
    /\ attempts.tried = <<1, 2>>
    /\ outcome[1] = "ok"
    /\ outcome[2] = "construct_fails"
    /\ success_count = 1
    /\ dftask_list[2].Result = "Failed"

OrderFinished(o) == order_pc[o] \in {"done", "raised"}

NonNegative(c) == CLeq(Zero, c)

\* both scenarios have been evaluated and summarised
Summarised == IsSet(df_summary) /\ IsSet(vsd_calculation) /\ IsSet(impeller_calculation)

\* every bin has a base-case energy and a required speed not below zero
NonNegativeBins(t) ==
    \A i \in 1..Len(t) :
        /\ NonNegative(t[i][BASE_CASE_ENERGY_CONSUMPTION])
        /\ NonNegative(Cube(t[i][REQUIRED_SPEED_VARIATION]))

\* every bin that consumes energy requires the largest speed of the table
LoadedBinsAtMaximum(t) ==
    \A i \in 1..Len(t) :
        CGreater(t[i][BASE_CASE_ENERGY_CONSUMPTION], Zero) =>
            t[i][REQUIRED_SPEED_VARIATION] =
                MaxSpeed(Column(t, REQUIRED_SPEED_VARIATION))

\* C27: when every bin has a base-case energy and a required speed
\* variation not below zero, the total annual energy saving of the VSD
\* scenario is at least that of the Impeller scenario, and the two are
\* equal iff every bin with positive base-case energy requires the largest
\* speed variation.
C27_VsdDominatesImpeller ==
    (Summarised /\ NonNegativeBins(Val(vsd_calculation))) =>
        /\ CLeq(Val(df_summary).Impeller.annual_energy_saving,
                Val(df_summary).Vsd.annual_energy_saving)
        /\ CEq(Val(df_summary).Impeller.annual_energy_saving,
               Val(df_summary).Vsd.annual_energy_saving)
           <=> LoadedBinsAtMaximum(Val(vsd_calculation))

\* two bins that consume energy, one requiring less speed than the other:
\* the VSD scenario saves strictly more
C27_Witness ==
    /\ Summarised
    /\ NonNegativeBins(Val(vsd_calculation))
    /\ ~LoadedBinsAtMaximum(Val(vsd_calculation))
    /\ CLess(Val(df_summary).Impeller.annual_energy_saving,
             Val(df_summary).Vsd.annual_energy_saving)

\* the samples carry their computed columns
Computed == pc \in {"computed", "grouped", "energy", "economics", "written", "returned"}

\* the configured piping-loss fraction lies in [0, 1]
LossIsFraction == CLeq(Zero, config.piping_loss) /\ CLeq(config.piping_loss, COne)

\* C28: under the downstream-pressure method with a piping-loss fraction in
\* [0, 1], every sample that survived cleaning has a valve pressure drop
\* above zero, a required differential pressure not above the differential
\* pressure, and a required speed variation of at most 1.
C28_NoSpeedUp ==
    (/\ Computed
     /\ process_data.calculation_method = METHOD_DOWNSTREAM
     /\ LossIsFraction) =>
        \A i \in 1..Len(operation_data) :
            /\ CGreater(operation_data[i][CV_PRESSURE_DROP], Zero)
            /\ CLeq(operation_data[i][REQUIRED_DIFFERENTIAL_PRESSURE],
                    operation_data[i][DIFFERENTIAL_PRESSURE])
            /\ CLeq(Cube(operation_data[i][REQUIRED_SPEED_VARIATION]), COne)

\* C30: when create_energy_calculation finishes, vsd_calculation holds what
\* the VSD pass computes from the grouped table and impeller_calculation
\* holds what an Impeller pass computes from that table alone: none of its
\* selected speeds, energies or emissions is left from the VSD pass.
C30_IndependentSnapshots ==
    [][(pc = "grouped" /\ pc' = "energy") =>
          /\ vsd_calculation' =
                <<energy_option(Val(dfcalculation), "Vsd", env.emission_factor)>>
          /\ impeller_calculation' =
                <<energy_option(Val(dfcalculation), "Impeller", env.emission_factor)>>
          /\ dfcalculation' = impeller_calculation']_vars

\* both snapshots taken of a table with a bin whose scenarios differ in
\* the selected speed, the proposed energy and the proposed emission
C30_Witness ==
    /\ pc = "energy"
    /\ \E i \in 1..Len(Val(vsd_calculation)) :
          /\ Val(vsd_calculation)[i][SELECTED_MEASURE] = Str("Vsd")
          /\ Val(impeller_calculation)[i][SELECTED_MEASURE] = Str("Impeller")
          /\ \A c \in {SELECTED_SPEED_VARIATION, PROPOSED_CASE_ENERGY_CONSUMPTION,
                       PROPOSED_CASE_EMISSION} :
                /\ ~IsNaN(Val(vsd_calculation)[i][c])
                /\ Val(vsd_calculation)[i][c] # Val(impeller_calculation)[i][c]

====
